---- MODULE Spec2Model ----
(***************************************************************************)
(* Recruiting applicant-tracking application (ywding0926/recruit-platform). *)
(*                                                                         *)
(* The model covers the record store (src/src/db.mjs: the local JSON       *)
(* document, the remote row store, loadData / saveData and the delete      *)
(* helpers) and the route handlers of src/src/index.mjs that mutate it.    *)
(* A route handler is one action: loadData, the in-memory mutation,        *)
(* saveData and the response.                                              *)
(*                                                                         *)
(* Strings of the source that are not ASCII are written with ASCII names:  *)
(*   待筛选 pending_screen   简历初筛 resume_screen                          *)
(*   待N面  wait_rN          N面通过  pass_rN          (N = 1..5)            *)
(*   待发offer wait_offer    Offer发放 offer_sent                           *)
(*   入职 hired              淘汰 rejected                                  *)
(*   （不同步） no_sync                                                     *)
(***************************************************************************)
EXTENDS Integers, Sequences, FiniteSets, TLC

VARIABLES
    cfg,     \* process configuration: supabaseEnabled, isServerless
    file,    \* data.json: NoFile (missing or unparsable) or the JSON document
    remote,  \* the remote tables: collection name -> sequence of rows
    clock,   \* requests served so far; the value nowIso() and rid() draw on
    limit,   \* how many requests this run serves
    req,     \* the last request
    res,     \* the response to it, with what the handler did on the way
    session, \* the browser's rp.sid cookie: the user and the OAuth state in it
    feishu,  \* the Feishu integration: whether it is enabled, and the token cache
    outbox,  \* the notification calls dispatched and not yet settled
    pend     \* per request in flight: what it loaded and means to save

vars == <<cfg, file, remote, clock, limit, req, res, session, feishu, outbox, pend>>

\* ------------------------------------------------------------- bounds

\* Requests served in a run of the store specification.
MaxOps == 1

\* Requests served in a run of the login specification.
MaxAuthSteps == 3

\* Half seconds a run of the token specification lasts.
MaxTokenTicks == 8

\* Requests served in a run of the notification specification.
MaxNotifyOps == 1

\* Requests in flight together in a run of the concurrency specification.
MaxRaceReqs == 2

\* Requests served in a run of the submission specification.
MaxSeqOps == 2

\* Requests served in a run that starts from the empty store.
MaxEmptyOps == 3
\* ------------------------------------------------------------- values

\* JS null / undefined, SQL NULL
NULL == "NULL"
\* data.json missing or not parsable: readFileSync / JSON.parse throws
NoFile == [exists |-> FALSE, doc |-> [c \in {} |-> <<>>]]
\* data.json holding the document doc
FileOf(doc) == [exists |-> TRUE, doc |-> doc]
\* a NULL created_at column (timestamps are the positive values of the clock)
NoTime == 0

STATUS_COLS ==
    << "pending_screen", "resume_screen",
       "wait_r1", "pass_r1", "wait_r2", "pass_r2", "wait_r3", "pass_r3",
       "wait_r4", "pass_r4", "wait_r5", "pass_r5",
       "wait_offer", "offer_sent", "hired", "rejected" >>

STATUS_SET == { STATUS_COLS[i] : i \in DOMAIN STATUS_COLS }

\* A round list with a sixth round.
INTERVIEW_ROUNDS_WithSixth == {1, 2, 3, 4, 5, 6}

INTERVIEW_ROUNDS == {1, 2, 3, 4, 5}

INTERVIEW_RATING == {"S", "A", "B+", "B", "B-", "C"}

OFFER_STATUSES == {"offer_pending", "offer_issued", "offer_accepted", "offer_declined", "offer_withdrawn"}

\* The top-level arrays of the JSON document that have a remote table
\* (sources and tags, plain string lists, are left out).
Collections ==
    {"jobs", "candidates", "interviews", "interviewSchedules",
     "resumeFiles", "events", "offers", "users"}

\* The six tables saveData upserts in one Promise.all, and loadData selects
\* in one Promise.all.
MainTables ==
    {"jobs", "candidates", "interviews", "interviewSchedules", "resumeFiles", "events"}

\* ------------------------------------------------------------ helpers

\* Array.prototype.map
Map(s, F(_)) == [i \in DOMAIN s |-> F(s[i])]

\* new Set(arr.map(x => x.id))
Ids(s) == { s[i].id : i \in DOMAIN s }

\* Array.prototype.findIndex on a predicate; 0 stands for -1
FindIndex(s, P(_)) ==
    IF \E i \in DOMAIN s : P(s[i])
    THEN CHOOSE i \in DOMAIN s : P(s[i]) /\ \A j \in 1..(i - 1) : ~P(s[j])
    ELSE 0

\* v || dflt on a string that may be missing
OrDefault(v, dflt) == IF v = NULL \/ v = "" THEN dflt ELSE v

\* obj.f = v, on an object that may not have the field yet
SetField(x, f, v) == [k \in DOMAIN x \cup {f} |-> IF k = f THEN v ELSE x[k]]

\* A trim that leaves the whitespace in place.
TrimNothing(str) == str

\* String.prototype.trim on the inputs used here
Trim(str) == IF str \in {" ", "  "} THEN "" ELSE str

\* rid(prefix): unique per call; `now` is the request's time and k the call's
\* position in the request
rid(prefix, now, k) == prefix \o "_" \o ToString(now) \o "_" \o ToString(k)

\* Array.prototype.unshift
Unshift(s, x) == <<x>> \o s

\* Position of a stage in the pipeline order
RECURSIVE IndexFrom(_, _, _)
IndexFrom(s, x, i) ==
    IF i > Len(s) THEN 0
    ELSE IF s[i] = x THEN i
    ELSE IndexFrom(s, x, i + 1)

StageIndex(s) == IndexFrom(STATUS_COLS, s, 1)

\* ---------------------------------------------------- ensureDataShape

EmptyDoc == [c \in {} |-> <<>>]

\* ensureDataShape: every collection that is not an array becomes [].
EnsureDataShape(d) ==
    [c \in Collections |-> IF c \in DOMAIN d THEN d[c] ELSE <<>>]

\* ------------------------------------- camelCase <-> snake_case rows

Coalesce(v, dflt) == IF v = NULL THEN dflt ELSE v

\* x.f ?? null for a field the object may not have
Field(x, f) == IF f \in DOMAIN x THEN x[f] ELSE NULL

\* c.follow || {} ; follow.nextAction ?? null
candToRow(c) ==
    [id |-> c.id, status |-> Field(c, "status"), follow_next_action |-> Field(c, "follow")]
candFromRow(r) ==
    [id |-> r.id, status |-> Coalesce(r.status, "pending_screen"),
     follow |-> Coalesce(r.follow_next_action, "to_contact")]

jobToRow(j) == [id |-> j.id]
jobFromRow(r) == [id |-> r.id]

\* interviewer and dimensions have no column. A stored review or schedule
\* always has its round (a minimal key too), so the column is never NULL here.
interviewToRow(x) ==
    [id |-> x.id, candidate_id |-> Field(x, "candidateId"),
     round |-> x.round, status |-> Field(x, "status"), rating |-> Field(x, "rating")]
interviewFromRow(r) ==
    [id |-> r.id, candidateId |-> Coalesce(r.candidate_id, ""),
     round |-> r.round, status |-> Coalesce(r.status, ""), rating |-> Coalesce(r.rating, "")]

scheduleToRow(x) ==
    [id |-> x.id, candidate_id |-> Field(x, "candidateId"),
     round |-> x.round, scheduled_at |-> Field(x, "scheduledAt"),
     created_at |-> x.createdAt]
\* created_at ?? nowIso(), as for events
scheduleFromRow(r, now) ==
    [id |-> r.id, candidateId |-> Coalesce(r.candidate_id, ""),
     round |-> r.round, scheduledAt |-> Coalesce(r.scheduled_at, ""),
     createdAt |-> IF r.created_at = NoTime THEN now ELSE r.created_at]

resumeToRow(x) ==
    [id |-> x.id, candidate_id |-> Field(x, "candidateId"), url |-> Field(x, "url")]
resumeFromRow(r) ==
    [id |-> r.id, candidateId |-> Coalesce(r.candidate_id, ""), url |-> Coalesce(r.url, "")]

eventToRow(e) ==
    [id |-> e.id, candidate_id |-> Field(e, "candidateId"), type |-> Field(e, "type"),
     message |-> Field(e, "message"), created_at |-> e.createdAt]
\* created_at ?? nowIso(): a row without it is stamped with the time of the load
eventFromRow(r, now) ==
    [id |-> r.id, candidateId |-> Coalesce(r.candidate_id, ""), type |-> Coalesce(r.type, ""),
     message |-> Coalesce(r.message, ""),
     createdAt |-> IF r.created_at = NoTime THEN now ELSE r.created_at]

offerToRow(o) ==
    [id |-> o.id, candidate_id |-> Field(o, "candidateId"), offer_status |-> Field(o, "offerStatus")]
offerFromRow(r) ==
    [id |-> r.id, candidateId |-> Coalesce(r.candidate_id, ""),
     offerStatus |-> Coalesce(r.offer_status, "offer_pending")]

userToRow(u) == [id |-> u.id]
userFromRow(r) == [id |-> r.id]

ToRow(coll, x) ==
    CASE coll = "jobs" -> jobToRow(x)
      [] coll = "candidates" -> candToRow(x)
      [] coll = "interviews" -> interviewToRow(x)
      [] coll = "interviewSchedules" -> scheduleToRow(x)
      [] coll = "resumeFiles" -> resumeToRow(x)
      [] coll = "events" -> eventToRow(x)
      [] coll = "offers" -> offerToRow(x)
      [] coll = "users" -> userToRow(x)

FromRow(coll, r, now) ==
    CASE coll = "jobs" -> jobFromRow(r)
      [] coll = "candidates" -> candFromRow(r)
      [] coll = "interviews" -> interviewFromRow(r)
      [] coll = "interviewSchedules" -> scheduleFromRow(r, now)
      [] coll = "resumeFiles" -> resumeFromRow(r)
      [] coll = "events" -> eventFromRow(r, now)
      [] coll = "offers" -> offerFromRow(r)
      [] coll = "users" -> userFromRow(r)

\* The minimalKeys saveData passes for each table, among the modelled columns.
MinimalKeys(coll) ==
    CASE coll = "jobs" -> {"id"}
      [] coll = "candidates" -> {"id"}
      [] coll = "interviews" -> {"id", "candidate_id", "round"}
      [] coll = "interviewSchedules" -> {"id", "candidate_id", "round"}
      [] coll = "resumeFiles" -> {"id", "candidate_id", "url"}
      [] coll = "events" -> {"id", "candidate_id", "type"}
      [] coll = "offers" -> {"id", "candidate_id"}
      [] coll = "users" -> {"id"}

\* --------------------------------------------------- the remote store

\* The columns of a table, from the keys of its ToRow.
Columns(coll) ==
    CASE coll = "jobs" -> {"id"}
      [] coll = "candidates" -> {"id", "status", "follow_next_action"}
      [] coll = "interviews" -> {"id", "candidate_id", "round", "status", "rating"}
      [] coll = "interviewSchedules" ->
            {"id", "candidate_id", "round", "scheduled_at", "created_at"}
      [] coll = "resumeFiles" -> {"id", "candidate_id", "url"}
      [] coll = "events" -> {"id", "candidate_id", "type", "message", "created_at"}
      [] coll = "offers" -> {"id", "candidate_id", "offer_status"}
      [] coll = "users" -> {"id"}

NullOf(col) == IF col = "created_at" THEN NoTime ELSE NULL

\* .upsert(rows, { onConflict: "id" }) of one row holding the columns `keys`:
\* the row with that id has those columns overwritten; without one, the row
\* is inserted and its other columns are NULL.
UpsertRow(coll, table, row, keys) ==
    IF row.id \in Ids(table)
    THEN [i \in DOMAIN table |->
            IF table[i].id = row.id
            THEN [k \in Columns(coll) |-> IF k \in keys THEN row[k] ELSE table[i][k]]
            ELSE table[i]]
    ELSE Append(table, [k \in Columns(coll) |-> IF k \in keys THEN row[k] ELSE NullOf(k)])

RECURSIVE UpsertRows(_, _, _, _, _)
UpsertRows(coll, table, rows, keys, i) ==
    IF i > Len(rows) THEN table
    ELSE UpsertRows(coll, UpsertRow(coll, table, rows[i], keys), rows, keys, i + 1)

\* upsertWithRetry(admin, table, rows, minimalKeys) under the backend's answer
\* `how`: "ok" (the full upsert is accepted), "slim" (it is rejected and the
\* reduced-column retry is accepted), "fail" (both are rejected).
\* -> [table, threw]
upsertWithRetry(coll, table, rows, how) ==
    IF Len(rows) = 0 THEN [table |-> table, threw |-> FALSE]
    ELSE IF how = "ok"
    THEN [table |-> UpsertRows(coll, table, rows, Columns(coll), 1), threw |-> FALSE]
    ELSE IF how = "slim" /\ MinimalKeys(coll) # {}
    THEN [table |-> UpsertRows(coll, table, rows, MinimalKeys(coll), 1), threw |-> FALSE]
    ELSE [table |-> table, threw |-> TRUE]

\* .delete().eq(col, v)
DeleteEq(table, col, v) == SelectSeq(table, LAMBDA r : r[col] # v)

\* ------------------------------------------------ what the I/O answers

\* One request's I/O outcomes: admin (getSupabaseAdmin() returns a client),
\* lw (writeFileSync succeeds), sel (the six selects of loadData succeed),
\* selOffers / selUsers (those tables exist and their select succeeds),
\* del (the remote deletes take effect), up (per table, how its upsert is
\* answered).
AllUp == [c \in Collections |-> "ok"]

AllOk ==
    [admin |-> TRUE, lw |-> TRUE, sel |-> TRUE, selOffers |-> TRUE,
     selUsers |-> TRUE, del |-> TRUE, up |-> AllUp]

\* One thing goes wrong: a flag is false, or one table's upsert is answered h.
FlagFault(f) == [AllOk EXCEPT ![f] = FALSE]
UpFault(c, h) == [AllOk EXCEPT !.up = [AllUp EXCEPT ![c] = h]]

\* ----------------------------------------------------- local document

\* loadDataLocal -> [d, file]: the dataset, and data.json afterwards (a
\* missing or unparsable file is replaced by the empty document, best effort).
loadDataLocal(c, f, io) ==
    IF c.serverless THEN [d |-> EnsureDataShape(EmptyDoc), file |-> f]
    ELSE IF f.exists THEN [d |-> EnsureDataShape(f.doc), file |-> f]
    ELSE [d |-> EnsureDataShape(EmptyDoc),
          file |-> IF io.lw THEN FileOf(EnsureDataShape(EmptyDoc)) ELSE f]

\* A saveDataLocal that reports success without writing the file.
saveDataLocalSkipsWrite(c, f, d, io) == [file |-> f, threw |-> FALSE]

\* A saveDataLocal that keeps the stored events the dataset does not have.
saveDataLocalMergesEvents(c, f, d, io) ==
    IF c.serverless THEN [file |-> f, threw |-> FALSE]
    ELSE IF io.lw
    THEN [file |-> FileOf([EnsureDataShape(d) EXCEPT !.events =
                             IF f.exists
                             THEN @ \o SelectSeq(EnsureDataShape(f.doc).events,
                                                 LAMBDA e : e.id \notin Ids(d.events))
                             ELSE @]),
          threw |-> FALSE]
    ELSE [file |-> f, threw |-> TRUE]

\* saveDataLocal -> [file, threw]
saveDataLocal(c, f, d, io) ==
    IF c.serverless THEN [file |-> f, threw |-> FALSE]
    ELSE IF io.lw THEN [file |-> FileOf(EnsureDataShape(d)), threw |-> FALSE]
    ELSE [file |-> f, threw |-> TRUE]

\* ------------------------------------------------------------ loadData

\* sbSelectAll of every table, mapped through the FromRow functions; the
\* offers and users selects are caught and give [].
RemoteDataset(rem, io, now) ==
    [c \in Collections |->
        IF (c = "offers" /\ ~io.selOffers) \/ (c = "users" /\ ~io.selUsers)
        THEN <<>>
        ELSE [i \in DOMAIN rem[c] |-> FromRow(c, rem[c][i], now)]]

\* The merge of local resumeFiles: a local record whose id the remote lacks
\* is pushed; one whose remote twin has no url replaces it.
MergeResumes(sb, local) ==
    LET swapped ==
            [i \in DOMAIN sb |->
                LET k == FindIndex(local, LAMBDA lr : lr.id = sb[i].id)
                IN  IF k > 0 /\ local[k].url # "" /\ sb[i].url = "" THEN local[k] ELSE sb[i]]
    IN  swapped \o SelectSeq(local, LAMBDA lr : lr.id \notin Ids(sb))

\* The merge of the other collections: push every local record whose id is
\* not among the remote ids.
MergeById(sb, local) == sb \o SelectSeq(local, LAMBDA x : x.id \notin Ids(sb))

\* The collections loadData merges from the local document.
MergedCollections ==
    {"resumeFiles", "offers", "events", "interviews", "interviewSchedules", "candidates", "users"}

\* loadData -> [d, file]
loadData(c, f, rem, io, now) ==
    IF ~c.sb THEN loadDataLocal(c, f, io)
    ELSE IF ~io.admin \/ ~io.sel THEN loadDataLocal(c, f, io)
    ELSE LET d == EnsureDataShape(RemoteDataset(rem, io, now))
         IN  IF c.serverless THEN [d |-> d, file |-> f]
             ELSE LET L == loadDataLocal(c, f, io)
                  IN  [d |-> [k \in Collections |->
                                 IF k = "resumeFiles" THEN MergeResumes(d[k], L.d[k])
                                 ELSE IF k \in MergedCollections THEN MergeById(d[k], L.d[k])
                                 ELSE d[k]],
                       file |-> L.file]

\* ------------------------------------------------------------ saveData

MainOrder ==
    <<"jobs", "candidates", "interviews", "interviewSchedules", "resumeFiles", "events">>

Rows(coll, d) == [i \in DOMAIN d[coll] |-> ToRow(coll, d[coll][i])]

\* A saveData without the try around saveDataLocal: the exception leaves.
CatchLocalRethrows(threw) == threw

\* try { saveDataLocal(shaped) } catch { warn }: whether the exception leaves
CatchLocal(threw) == FALSE
\* try { ...upserts... } catch { warn }
CatchRemote(threw) == FALSE
\* try { ...offers / users upsert... } catch {}: whether the exception
\* reaches the outer try
CatchOptional(threw) == FALSE

RECURSIVE SeqOfMain(_, _)
SeqOfMain(P(_), i) ==
    IF i > Len(MainOrder) THEN <<>>
    ELSE (IF P(MainOrder[i]) THEN <<"upsert:" \o MainOrder[i]>> ELSE <<>>) \o SeqOfMain(P, i + 1)

\* The upserts issued after the six: offers, then users, each only when the
\* code before it did not throw into the outer catch.
SaveOptional(c, d, rem, io, mainThrew) ==
    LET uo == upsertWithRetry("offers", rem["offers"], Rows("offers", d), io.up["offers"])
        doOffers == ~mainThrew /\ Len(d["offers"]) > 0
        offersOut == doOffers /\ CatchOptional(uo.threw)
        uu == upsertWithRetry("users", rem["users"], Rows("users", d), io.up["users"])
        doUsers == ~mainThrew /\ ~offersOut /\ Len(d["users"]) > 0
        usersOut == doUsers /\ CatchOptional(uu.threw)
    IN  [offers |-> IF doOffers THEN uo.table ELSE rem["offers"],
         users |-> IF doUsers THEN uu.table ELSE rem["users"],
         trace |-> (IF doOffers THEN <<"upsert:offers">> ELSE <<>>)
                   \o (IF doUsers THEN <<"upsert:users">> ELSE <<>>),
         threw |-> offersOut \/ usersOut]

\* saveData(d) -> [file, remote, threw, trace]
saveData(c, f, rem, d0, io) ==
    LET d == EnsureDataShape(d0)
        lw == saveDataLocal(c, f, d, io)
        localTrace == <<"saveDataLocal">> \o (IF c.serverless THEN <<>> ELSE <<"writeFileSync">>)
        localOut == CatchLocal(lw.threw)
    IN  IF localOut
        THEN [file |-> lw.file, remote |-> rem, threw |-> TRUE, trace |-> localTrace]
        ELSE IF ~c.sb
        THEN [file |-> lw.file, remote |-> rem, threw |-> FALSE, trace |-> localTrace]
        ELSE IF ~io.admin
        THEN [file |-> lw.file, remote |-> rem, threw |-> CatchRemote(TRUE), trace |-> localTrace]
        ELSE LET up(t) == upsertWithRetry(t, rem[t], Rows(t, d), io.up[t])
                 mainThrew == \E t \in MainTables : up(t).threw
                 opt == SaveOptional(c, d, rem, io, mainThrew)
             IN  [file |-> lw.file,
                  remote |-> [t \in Collections |->
                                 IF t \in MainTables THEN up(t).table
                                 ELSE IF t = "offers" THEN opt.offers
                                 ELSE opt.users],
                  threw |-> CatchRemote(mainThrew \/ opt.threw),
                  trace |-> localTrace
                            \o SeqOfMain(LAMBDA t : Len(d[t]) > 0, 1)
                            \o opt.trace]

\* ------------------------------------------------------ delete helpers

\* deleteFromSupabase(table, id): nothing without the backend; a failure is
\* caught, and a delete the backend rejects changes nothing.
deleteFromSupabase(c, rem, io, table, id) ==
    IF ~c.sb \/ ~io.admin \/ ~io.del THEN rem
    ELSE [rem EXCEPT ![table] = DeleteEq(rem[table], "id", id)]

\* The tables deleteCandidateRelated deletes from by candidate_id.
RelatedTables == {"interviews", "interviewSchedules", "resumeFiles", "events", "offers"}

\* A deleteCandidateRelated that forgets the candidate_events table.
deleteCandidateRelatedKeepsEvents(c, rem, io, cid) ==
    IF ~c.sb \/ ~io.admin \/ ~io.del THEN rem
    ELSE [t \in Collections |->
            IF t \in RelatedTables \ {"events"} THEN DeleteEq(rem[t], "candidate_id", cid)
            ELSE IF t = "candidates" THEN DeleteEq(rem[t], "id", cid)
            ELSE rem[t]]

\* deleteCandidateRelated(candidateId)
deleteCandidateRelated(c, rem, io, cid) ==
    IF ~c.sb \/ ~io.admin \/ ~io.del THEN rem
    ELSE [t \in Collections |->
            IF t \in RelatedTables THEN DeleteEq(rem[t], "candidate_id", cid)
            ELSE IF t = "candidates" THEN DeleteEq(rem[t], "id", cid)
            ELSE rem[t]]

\* ------------------------------------------------------- request inputs

\* req.user.name of the session that sends the requests
UserName == "hr"

\* A status no version of STATUS_COLS holds
BadStatus == "archived"

\* req.body.round as JSON text: absent, the numbers 0..6, a non-numeric string
RoundInputs == {"absent", "0", "1", "2", "3", "4", "5", "6", "x"}

\* Number() of a round that is not a number
NaN == -1

\* Number(req.body.round || 1)
NumberRound(raw) ==
    CASE raw \in {"absent", "0"} -> 1
      [] raw = "1" -> 1
      [] raw = "2" -> 2
      [] raw = "3" -> 3
      [] raw = "4" -> 4
      [] raw = "5" -> 5
      [] raw = "6" -> 6
      [] OTHER -> NaN

\* "第N轮" of the event messages
RoundText(n) == ToString(n)

\* ------------------------------------------------------------ pushEvent

\* pushEvent(d, {candidateId, type, message}) with the id and the time drawn
pushEvent(d, candidateId, type, message, now, k) ==
    [d EXCEPT !.events =
        Unshift(@, [id |-> rid("ev", now, k), candidateId |-> candidateId, type |-> type,
                    message |-> message, createdAt |-> now])]

\* "状态：" + old + " -> " + new, and the variants with a prefix
StatusMsg(old, new) == old \o " -> " \o new

\* A call into feishu.mjs that the handler does not await: the function, the
\* open id it addresses and the candidate it is about.
Call(fn, to, about) == [fn |-> fn, to |-> to, about |-> about]

\* ------------------------------------------------------- the responses

\* The handler ends without saveData: the store is as loadData left it.
NoSave(L, io, rq, rs) ==
    /\ file' = L.file
    /\ remote' = remote
    /\ req' = rq
    /\ res' = [rs EXCEPT !.d = L.d, !.clean = (io = AllOk), !.io = io]
    /\ clock' = clock + 1
    /\ UNCHANGED <<cfg, limit, session, feishu, outbox, pend>>

\* A tail that dispatches the notification calls before it saves.
HandlerTailCallsFirst(saveTrace, calls) ==
    [i \in DOMAIN calls |-> calls[i].fn] \o saveTrace \o <<"respond">>

\* The order of a handler's tail: await saveData(d), then the notification
\* calls, then the response.
HandlerTail(saveTrace, calls) ==
    saveTrace \o [i \in DOMAIN calls |-> calls[i].fn] \o <<"respond">>

\* await saveData(d), then the notification calls `calls`, dispatched and not
\* awaited, then the response; a rejection of saveData reaches the error
\* middleware instead, before any call.
SaveNotify(L, d, rem, io, rq, rs, calls) ==
    LET S == saveData(cfg, L.file, rem, d, io)
    IN  /\ file' = S.file
        /\ remote' = S.remote
        /\ req' = rq
        /\ res' = IF S.threw
                  THEN [code |-> 500, out |-> "error", d |-> d, trace |-> S.trace,
                        clean |-> (io = AllOk), io |-> io]
                  ELSE [rs EXCEPT !.d = d, !.trace = HandlerTail(S.trace, calls),
                                  !.clean = (io = AllOk), !.io = io]
        /\ outbox' = IF S.threw THEN outbox ELSE outbox \o calls
        /\ clock' = clock + 1
        /\ UNCHANGED <<cfg, limit, session, feishu, pend>>

\* A handler that notifies nobody.
SaveAnd(L, d, rem, io, rq, rs) == SaveNotify(L, d, rem, io, rq, rs, <<>>)

\* A response: the status code and the body or the redirect target; with it,
\* the dataset the handler ended with, the I/O calls of its saveData (none
\* when it saved nothing), what the I/O calls of the request were answered,
\* and whether every one of them succeeded.
Res(code, out) ==
    [code |-> code, out |-> out, d |-> EmptyDoc, trace |-> <<>>, clean |-> TRUE,
     io |-> AllOk]


\* --------------------------------------------------------------- jobs

\* app.post("/jobs/new")
JobNew(io) ==
    /\ clock < limit
    /\ LET now == clock + 1
           L == loadData(cfg, file, remote, io, now)
           job == [id |-> rid("job", now, 1)]
           d == [L.d EXCEPT !.jobs = Unshift(@, job)]
       IN  SaveAnd(L, d, remote, io, [op |-> "jobNew"], Res(302, "/jobs/" \o job.id))

\* app.post("/jobs/:id/delete")
JobDelete(id, io) ==
    /\ clock < limit
    /\ LET now == clock + 1
           L == loadData(cfg, file, remote, io, now)
           idx == FindIndex(L.d.jobs, LAMBDA x : x.id = id)
           rq == [op |-> "jobDelete", id |-> id]
       IN  IF idx > 0
           THEN SaveAnd(L, [L.d EXCEPT !.jobs = SelectSeq(@, LAMBDA x : x.id # id)],
                        deleteFromSupabase(cfg, remote, io, "jobs", id), io, rq, Res(302, "/jobs"))
           ELSE NoSave(L, io, rq, Res(302, "/jobs"))

\* --------------------------------------------------------- candidates

\* saveResumeSupabaseOrLocal -> [d, threw]: the object store when a client is
\* there, the uploads directory otherwise (never on serverless).
saveResumeSupabaseOrLocal(d, candidateId, io, now) ==
    IF io.admin
    THEN [d |-> pushEvent([d EXCEPT !.resumeFiles =
                              Append(@, [id |-> rid("rf", now, 1), candidateId |-> candidateId,
                                         url |-> "signed"])],
                          candidateId, "resume", "supabase", now, 2),
          threw |-> FALSE]
    ELSE IF cfg.serverless \/ ~io.lw THEN [d |-> d, threw |-> TRUE]
    ELSE [d |-> pushEvent([d EXCEPT !.resumeFiles =
                              Append(@, [id |-> rid("rf", now, 1), candidateId |-> candidateId,
                                         url |-> "/uploads"])],
                          candidateId, "resume", "local", now, 2),
          threw |-> FALSE]

\* app.post("/candidates/new")
CandidateNew(name0, jobId0, hasFile, io) ==
    /\ clock < limit
    /\ LET now == clock + 1
           L == loadData(cfg, file, remote, io, now)
           name == Trim(name0)
           jobId == Trim(jobId0)
           rq == [op |-> "candidateNew", name |-> name0, jobId |-> jobId0, hasFile |-> hasFile]
           c == [id |-> rid("c", now, 0), status |-> "pending_screen", follow |-> "to_contact"]
           d1 == pushEvent([L.d EXCEPT !.candidates = Unshift(@, c)],
                           c.id, "create", "create", now, 0)
           up == saveResumeSupabaseOrLocal(d1, c.id, io, now)
           d2 == IF ~hasFile THEN d1
                 ELSE IF up.threw THEN pushEvent(d1, c.id, "resume", "skipped", now, 3)
                 ELSE up.d
       IN  IF name = "" THEN NoSave(L, io, rq, Res(302, "/candidates/new"))
           ELSE IF jobId = "" THEN NoSave(L, io, rq, Res(302, "/candidates/new"))
           ELSE SaveAnd(L, d2, remote, io, rq, Res(302, "/candidates/" \o c.id))

\* The candidates a CSV with the 姓名 cells `names` adds to d, one per
\* non-empty name, each unshifted: ImportRows(d, names, now, 1)
RECURSIVE ImportRows(_, _, _, _)
ImportRows(d, names, now, i) ==
    IF i > Len(names) THEN d
    ELSE IF names[i] = "" THEN ImportRows(d, names, now, i + 1)
    ELSE ImportRows([d EXCEPT !.candidates =
                        Unshift(@, [id |-> rid("c", now, i), status |-> "pending_screen",
                                    follow |-> "to_contact"])],
                    names, now, i + 1)

\* app.post("/candidates/import"): hasFile, and the 姓名 cell of every line
\* after the header
Import(hasFile, names, io) ==
    /\ clock < limit
    /\ LET now == clock + 1
           L == loadData(cfg, file, remote, io, now)
           rq == [op |-> "import", hasFile |-> hasFile, names |-> names]
           d1 == ImportRows(L.d, names, now, 1)
           imported == Len(d1.candidates) - Len(L.d.candidates)
           d2 == pushEvent(d1, "", "import", ToString(imported), now, 0)
       IN  IF ~hasFile THEN NoSave(L, io, rq, Res(200, "no_file"))
           ELSE IF Len(names) < 1 THEN NoSave(L, io, rq, Res(200, "too_short"))
           ELSE IF imported > 0 THEN SaveAnd(L, d2, remote, io, rq, Res(200, "imported"))
           ELSE NoSave(L, io, rq, Res(200, "imported"))

\* app.post("/candidates/:id/delete")
CandidateDelete(id, io) ==
    /\ clock < limit
    /\ LET now == clock + 1
           L == loadData(cfg, file, remote, io, now)
           idx == FindIndex(L.d.candidates, LAMBDA x : x.id = id)
           rq == [op |-> "candidateDelete", id |-> id]
           Other(x) == x.candidateId # id
           d == [L.d EXCEPT
                   !.candidates = [i \in 1..(Len(@) - 1) |-> IF i < idx THEN @[i] ELSE @[i + 1]],
                   !.interviews = SelectSeq(@, Other),
                   !.interviewSchedules = SelectSeq(@, Other),
                   !.resumeFiles = SelectSeq(@, Other),
                   !.events = SelectSeq(@, Other),
                   !.offers = SelectSeq(@, Other)]
       IN  IF idx > 0
           THEN SaveAnd(L, d, deleteCandidateRelated(cfg, remote, io, id), io, rq,
                        Res(302, "/candidates"))
           ELSE NoSave(L, io, rq, Res(302, "/candidates"))

\* A status request that only moves a candidate forward in the pipeline.
StatusTargetForwardOnly(c, status0) ==
    LET status == OrDefault(status0, "pending_screen")
        new == IF status \in STATUS_SET THEN status ELSE "pending_screen"
        old == OrDefault(Field(c, "status"), "pending_screen")
    IN  IF StageIndex(new) < StageIndex(old) THEN old ELSE new

\* A status request that stores whatever status it is given.
StatusTargetUnchecked(c, status0) == OrDefault(status0, "pending_screen")

\* A status request that leaves the stage alone when it names no stage.
StatusTargetKeepsOnInvalid(c, status0) ==
    LET status == OrDefault(status0, "pending_screen")
    IN  IF status0 \in STATUS_SET THEN status
        ELSE OrDefault(Field(c, "status"), "pending_screen")

\* The stage a status request sets: String(req.body.status || "待筛选"), and
\* the initial stage again when that is no key of STATUS_COLS. The candidate's
\* current stage plays no part.
StatusTarget(c, status0) ==
    LET status == OrDefault(status0, "pending_screen")
    IN  IF status \in STATUS_SET THEN status ELSE "pending_screen"

\* app.post("/api/candidates/:id/status")
SetStatus(id, status0, io) ==
    /\ clock < limit
    /\ LET now == clock + 1
           L == loadData(cfg, file, remote, io, now)
           idx == FindIndex(L.d.candidates, LAMBDA x : x.id = id)
           rq == [op |-> "status", id |-> id, status |-> status0]
           c == L.d.candidates[idx]
           old == OrDefault(Field(c, "status"), "pending_screen")
           new == StatusTarget(c, status0)
           d == pushEvent([L.d EXCEPT !.candidates[idx] = SetField(c, "status", new)],
                          c.id, "status_flow", StatusMsg(old, new), now, 0)
           calls == IF feishu.enabled /\ session.user.openId # ""
                    THEN << Call("sendFeishuMessage", session.user.openId, c.id) >>
                    ELSE <<>>
       IN  IF idx = 0 THEN NoSave(L, io, rq, Res(404, "not_found"))
           ELSE SaveNotify(L, d, remote, io, rq, Res(200, "ok"), calls)

\* ------------------------------------------------------------ reviews

\* RATING_SCORES, doubled to stay in the integers (B+ is 3.5)
RATING_SCORES(rating) ==
    CASE rating = "S" -> 10
      [] rating = "A" -> 8
      [] rating = "B+" -> 7
      [] rating = "B" -> 6
      [] rating = "B-" -> 4
      [] rating = "C" -> 2
      [] OTHER -> 0

\* ratingScore >= 3.5
PassThreshold == 7

\* passStatusMap[round]
passStatusMap(round) ==
    CASE round = 1 -> "pass_r1"
      [] round = 2 -> "pass_r2"
      [] round = 3 -> "pass_r3"
      [] round = 4 -> "pass_r4"
      [] round = 5 -> "pass_r5"
      [] OTHER -> NULL

\* A flow whose pass mark is above B+ (ratingScore > 3.5).
ReviewFlowStrictPass(round, status, rating) ==
    IF rating = "B-" \/ rating = "C"
    THEN [status |-> status, msg |-> "suggest_reject"]
    ELSE IF RATING_SCORES(rating) > PassThreshold
    THEN LET passStatus == passStatusMap(round)
         IN  IF passStatus # NULL /\ passStatus \in STATUS_SET
             THEN IF round >= 5
                  THEN [status |-> "wait_offer", msg |-> "auto_offer"]
                  ELSE [status |-> passStatus, msg |-> "auto_pass"]
             ELSE [status |-> status, msg |-> ""]
    ELSE [status |-> status, msg |-> ""]

\* A flow without the step from the fifth round to the offer.
ReviewFlowNoOfferStep(round, status, rating) ==
    IF rating = "B-" \/ rating = "C"
    THEN [status |-> status, msg |-> "suggest_reject"]
    ELSE IF RATING_SCORES(rating) >= PassThreshold
    THEN LET passStatus == passStatusMap(round)
         IN  IF passStatus # NULL /\ passStatus \in STATUS_SET
             THEN [status |-> passStatus, msg |-> "auto_pass"]
             ELSE [status |-> status, msg |-> ""]
    ELSE [status |-> status, msg |-> ""]

\* A flow that says nothing about a low rating.
ReviewFlowSilentLowRating(round, status, rating) ==
    IF RATING_SCORES(rating) >= PassThreshold
    THEN LET passStatus == passStatusMap(round)
         IN  IF passStatus # NULL /\ passStatus \in STATUS_SET
             THEN IF round >= 5
                  THEN [status |-> "wait_offer", msg |-> "auto_offer"]
                  ELSE [status |-> passStatus, msg |-> "auto_pass"]
             ELSE [status |-> status, msg |-> ""]
    ELSE [status |-> status, msg |-> ""]

\* A flow that rejects the candidate on a low rating.
ReviewFlowAutoReject(round, status, rating) ==
    IF rating = "B-" \/ rating = "C"
    THEN [status |-> "rejected", msg |-> "suggest_reject"]
    ELSE IF RATING_SCORES(rating) >= PassThreshold
    THEN LET passStatus == passStatusMap(round)
         IN  IF passStatus # NULL /\ passStatus \in STATUS_SET
             THEN IF round >= 5
                  THEN [status |-> "wait_offer", msg |-> "auto_offer"]
                  ELSE [status |-> passStatus, msg |-> "auto_pass"]
             ELSE [status |-> status, msg |-> ""]
    ELSE [status |-> status, msg |-> ""]

\* The status the review leaves the candidate with -> [status, msg]
ReviewFlow(round, status, rating) ==
    IF rating = "B-" \/ rating = "C"
    THEN [status |-> status, msg |-> "suggest_reject"]
    ELSE IF RATING_SCORES(rating) >= PassThreshold
    THEN LET passStatus == passStatusMap(round)
         IN  IF passStatus # NULL /\ passStatus \in STATUS_SET
             THEN IF round >= 5
                  THEN [status |-> "wait_offer", msg |-> "auto_offer"]
                  ELSE [status |-> passStatus, msg |-> "auto_pass"]
             ELSE [status |-> status, msg |-> ""]
    ELSE [status |-> status, msg |-> ""]

\* c.status.includes("通过")
IncludesPass(status) == status \in {"pass_r1", "pass_r2", "pass_r3", "pass_r4", "pass_r5"}

\* The follow-up action after a review
ReviewFollow(c, status) ==
    IF status = "rejected" THEN "ended"
    ELSE IF IncludesPass(status) THEN "arrange_next"
    ELSE IF status = "wait_offer" THEN "prepare_offer"
    ELSE Field(c, "follow")

\* app.post("/api/candidates/:id/reviews")
Review(id, round0, status0, rating0, interviewer0, io) ==
    /\ clock < limit
    /\ LET now == clock + 1
           L == loadData(cfg, file, remote, io, now)
           cidx == FindIndex(L.d.candidates, LAMBDA x : x.id = id)
           rq == [op |-> "review", id |-> id, round |-> round0, status |-> status0,
                  rating |-> rating0, interviewer |-> interviewer0]
           c == L.d.candidates[cidx]
           round == NumberRound(round0)
           status == OrDefault(status0, "wait_r1")
           rating == rating0
           interviewer == OrDefault(interviewer0, UserName)
           idx == FindIndex(L.d.interviews,
                            LAMBDA x : /\ x.candidateId = c.id
                                       /\ x.round = round
                                       /\ OrDefault(Field(x, "interviewer"), "") = interviewer)
           item == [id |-> IF idx > 0 THEN L.d.interviews[idx].id ELSE rid("rv", now, 0),
                    candidateId |-> c.id, round |-> round, status |-> status,
                    rating |-> rating, interviewer |-> interviewer]
           d1 == [L.d EXCEPT !.interviews = IF idx > 0 THEN [@ EXCEPT ![idx] = item]
                                            ELSE Append(@, item)]
           old == OrDefault(Field(c, "status"), "pending_screen")
           flow == ReviewFlow(round, status, rating)
           d2 == pushEvent(d1, c.id, "review",
                           RoundText(round) \o "(" \o interviewer \o "): " \o status
                               \o ", " \o OrDefault(rating, "-"),
                           now, 1)
           d3 == IF old # flow.status
                 THEN pushEvent(d2, c.id, "status_sync", StatusMsg(old, flow.status), now, 2)
                 ELSE d2
           c2 == SetField(SetField(c, "status", flow.status),
                          "follow", ReviewFollow(c, flow.status))
           d4 == [d3 EXCEPT !.candidates[cidx] = c2]
       IN  IF cidx = 0 THEN NoSave(L, io, rq, Res(404, "not_found"))
           ELSE IF round \notin INTERVIEW_ROUNDS THEN NoSave(L, io, rq, Res(400, "invalid_round"))
           ELSE IF rating # "" /\ rating \notin INTERVIEW_RATING
           THEN NoSave(L, io, rq, Res(400, "invalid_rating"))
           ELSE IF status \notin STATUS_SET THEN NoSave(L, io, rq, Res(400, "invalid_status"))
           ELSE SaveAnd(L, d4, remote, io, rq,
                        [code |-> 200, out |-> "ok", d |-> EmptyDoc, trace |-> <<>>,
                         clean |-> TRUE, io |-> AllOk, autoFlowMsg |-> flow.msg])

\* ----------------------------------------------------------- schedules

\* interviewers.split(/[\/;,]/).map(trim).filter(Boolean), for the texts
\* the requests carry
SplitNames(text) ==
    CASE text = "li" -> <<"li">>
      [] text = "li/zhao" -> <<"li", "zhao">>
      [] text = "li, wang" -> <<"li", "wang">>
      [] OTHER -> <<>>

\* Whether new Date(scheduledAt.replace(" ", "T")) is a date; toISOString()
\* throws a RangeError on one that is not.
ValidDate(text) == text \in {"2026-02-02 10:00", "2026-01-01"}

\* d.users.find(u => u.name === name && u.openId) for every name, keeping
\* the open ids of the users found
OpenIdsOf(users, names) ==
    LET Found(name) == FindIndex(users, LAMBDA u : /\ Field(u, "name") = name
                                                   /\ OrDefault(Field(u, "openId"), "") # "")
        Hit == SelectSeq(names, LAMBDA n : Found(n) > 0)
    IN  [i \in DOMAIN Hit |-> users[Found(Hit[i])].openId]

\* Rules that move a candidate on from any stage.
AutoFlowFromAnyStage(round) == STATUS_SET

\* autoFlowRules: the stages a schedule for the round moves on from, and the
\* stage it moves to
AutoFlowFrom(round) ==
    IF round = 1 THEN {"pending_screen", "resume_screen"}
    ELSE {STATUS_COLS[2 * round], STATUS_COLS[2 * round - 1]}
AutoFlowTo(round) == STATUS_COLS[2 * round + 1]

\* The candidate's status after a schedule request, and the event it logs
\* ("" when none).
ScheduleFlow(c, round, scheduledAt, syncStatus) ==
    LET old == OrDefault(Field(c, "status"), "pending_screen")
    IN  IF syncStatus # "" /\ syncStatus # "no_sync" /\ syncStatus \in STATUS_SET
        THEN [set |-> TRUE, status |-> syncStatus,
              event |-> IF old # syncStatus THEN "status_sync" ELSE ""]
        ELSE IF syncStatus = "no_sync" /\ scheduledAt # "" /\ old \in AutoFlowFrom(round)
        THEN [set |-> TRUE, status |-> AutoFlowTo(round), event |-> "auto_flow"]
        ELSE [set |-> FALSE, status |-> old, event |-> ""]

\* A schedule item that takes nothing from the one it replaces.
ScheduleItemAlwaysNew(schedules, idx, cid, round, scheduledAt, interviewers, now) ==
    [id |-> rid("sc", now, 0), candidateId |-> cid, round |-> round,
     scheduledAt |-> scheduledAt, interviewers |-> interviewers, createdAt |-> now]

\* const item = {...}: the schedule the handler stores; at idx > -1 it takes
\* the id and createdAt of the schedule it replaces.
ScheduleItem(schedules, idx, cid, round, scheduledAt, interviewers, now) ==
    [id |-> IF idx > 0 THEN schedules[idx].id ELSE rid("sc", now, 0),
     candidateId |-> cid, round |-> round, scheduledAt |-> scheduledAt,
     interviewers |-> interviewers,
     createdAt |-> IF idx > 0 THEN schedules[idx].createdAt ELSE now]

\* app.post("/api/candidates/:id/schedule")
Schedule(id, round0, scheduledAt0, interviewers0, syncStatus0, syncCalendar, io) ==
    /\ clock < limit
    /\ LET now == clock + 1
           L == loadData(cfg, file, remote, io, now)
           cidx == FindIndex(L.d.candidates, LAMBDA x : x.id = id)
           rq == [op |-> "schedule", id |-> id, round |-> round0,
                  scheduledAt |-> scheduledAt0, interviewers |-> interviewers0,
                  syncStatus |-> syncStatus0, syncCalendar |-> syncCalendar]
           c == L.d.candidates[cidx]
           round == NumberRound(round0)
           scheduledAt == Trim(scheduledAt0)
           interviewers == Trim(interviewers0)
           syncStatus == Trim(OrDefault(syncStatus0, "no_sync"))
           idx == FindIndex(L.d.interviewSchedules,
                            LAMBDA x : x.candidateId = c.id /\ x.round = round)
           item == ScheduleItem(L.d.interviewSchedules, idx, c.id, round, scheduledAt,
                                interviewers, now)
           d1 == [L.d EXCEPT !.interviewSchedules =
                      IF idx > 0 THEN [@ EXCEPT ![idx] = item] ELSE Append(@, item)]
           d2 == pushEvent(d1, c.id, "schedule",
                           RoundText(round) \o ": " \o OrDefault(scheduledAt, "-")
                               \o ", " \o OrDefault(interviewers, "-"),
                           now, 1)
           old == OrDefault(Field(c, "status"), "pending_screen")
           flow == ScheduleFlow(c, round, scheduledAt, syncStatus)
           d3 == IF flow.event # ""
                 THEN pushEvent(d2, c.id, flow.event, StatusMsg(old, flow.status), now, 2)
                 ELSE d2
           c1 == IF flow.set THEN SetField(c, "status", flow.status) ELSE c
           c2 == IF scheduledAt # "" THEN SetField(c1, "follow", "await_feedback") ELSE c1
           d4 == [d3 EXCEPT !.candidates[cidx] = c2]
           attendees == OpenIdsOf(L.d.users, SplitNames(interviewers))
           calendar == IF /\ feishu.enabled /\ scheduledAt # "" /\ syncCalendar = "on"
                          /\ ValidDate(scheduledAt)
                       THEN << Call("createFeishuCalendarEvent", attendees, c.id) >>
                       ELSE <<>>
           messages == IF feishu.enabled /\ scheduledAt # "" /\ interviewers # ""
                       THEN [i \in DOMAIN attendees |->
                                Call("sendFeishuMessage", attendees[i], c.id)]
                       ELSE <<>>
       IN  IF cidx = 0 THEN NoSave(L, io, rq, Res(404, "candidate_not_found"))
           ELSE IF round \notin INTERVIEW_ROUNDS
           THEN NoSave(L, io, rq, Res(400, "invalid_round"))
           ELSE SaveNotify(L, d4, remote, io, rq, Res(200, "ok"), calendar \o messages)

\* -------------------------------------------------------------- offers

\* An accepted offer moves every candidate, hired ones too.
OfferMovesStageEvenHired(c, offerStatus) == offerStatus = "offer_accepted"

\* if (offerStatus === "已接受" && c.status !== "入职")
OfferMovesStage(c, offerStatus) ==
    offerStatus = "offer_accepted" /\ Field(c, "status") # "hired"

\* app.post("/api/candidates/:id/offer")
Offer(id, offerStatus0, io) ==
    /\ clock < limit
    /\ LET now == clock + 1
           L == loadData(cfg, file, remote, io, now)
           cidx == FindIndex(L.d.candidates, LAMBDA x : x.id = id)
           rq == [op |-> "offer", id |-> id, offerStatus |-> offerStatus0]
           c == L.d.candidates[cidx]
           idx == FindIndex(L.d.offers, LAMBDA o : o.candidateId = c.id)
           offerStatus == Trim(OrDefault(offerStatus0, "offer_pending"))
           d1 == [L.d EXCEPT !.offers =
                      IF idx > 0
                      THEN [@ EXCEPT ![idx] = SetField(@, "offerStatus", offerStatus)]
                      ELSE Append(@, [id |-> rid("offer", now, 0), candidateId |-> c.id,
                                      offerStatus |-> offerStatus])]
           d2 == pushEvent(d1, c.id, "offer", offerStatus, now, 1)
           c2 == IF OfferMovesStage(c, offerStatus)
                 THEN SetField(c, "status", "offer_sent")
                 ELSE c
           d3 == [d2 EXCEPT !.candidates[cidx] = c2]
           calls == IF feishu.enabled /\ session.user.openId # ""
                    THEN << Call("sendFeishuMessage", session.user.openId, c.id) >>
                         \o (IF feishu.approvalCode # "" /\ offerStatus = "pending_approval"
                             THEN << Call("createApprovalInstance", session.user.openId, c.id) >>
                             ELSE <<>>)
                    ELSE <<>>
       IN  IF cidx = 0 THEN NoSave(L, io, rq, Res(404, "candidate_not_found"))
           ELSE SaveNotify(L, d3, remote, io, rq, Res(302, "/candidates/" \o c.id), calls)

\* ------------------------------------------------ sessions and Feishu

\* req.session.user when nobody is logged in (undefined)
NoUser == [name |-> "", provider |-> "none", openId |-> ""]

\* The cookie before any login and after /logout: cookie-session gives an
\* empty session object.
NoSession == [user |-> NoUser, feishuOAuthState |-> NULL]

\* req.session.user after POST /login with a name: {id, name, provider: "dev"}
DevUser == [name |-> UserName, provider |-> "dev", openId |-> ""]

\* req.session.user after the Feishu callback: it carries the openId
FeishuUser == [name |-> UserName, provider |-> "feishu", openId |-> "ou_hr"]

DevSession == [user |-> DevUser, feishuOAuthState |-> NULL]

\* let tenantTokenCache = { token: "", expiresAt: 0 }
EmptyCache == [token |-> "", expiresAt |-> 0]

\* FEISHU_APP_ID / FEISHU_APP_SECRET unset: feishuEnabled() is false
FeishuOff == [enabled |-> FALSE, cache |-> EmptyCache, approvalCode |-> ""]
FeishuOn == [enabled |-> TRUE, cache |-> EmptyCache, approvalCode |-> ""]

\* The same with process.env.FEISHU_APPROVAL_CODE set
FeishuApproval == [enabled |-> TRUE, cache |-> EmptyCache, approvalCode |-> "APPROVAL"]

\* No request is between its loadData and its saveData.
NoPending == <<>>

\* A step of auth.mjs or of the static mount: it reads and writes no store.
AuthStep(rq, rs, sess) ==
    /\ clock < limit
    /\ req' = rq
    /\ res' = rs
    /\ session' = sess
    /\ clock' = clock + 1
    /\ UNCHANGED <<cfg, file, remote, limit, feishu, outbox, pend>>

\* app.post("/login"): the login by name
Login(name0) ==
    LET name == Trim(name0)
        rq == [op |-> "login", name |-> name0]
    IN  IF name = "" THEN AuthStep(rq, Res(302, "/login"), session)
        ELSE AuthStep(rq, Res(302, "/candidates"), [session EXCEPT !.user = DevUser])

\* app.get("/logout"): req.session = null
Logout == AuthStep([op |-> "logout"], Res(302, "/login"), NoSession)

\* app.get("/auth/feishu"): a fresh random state goes into the session
FeishuStart ==
    LET rq == [op |-> "feishuStart"]
        state == rid("st", clock + 1, 0)
    IN  IF ~feishu.enabled THEN AuthStep(rq, Res(400, "feishu_disabled"), session)
        ELSE AuthStep(rq, Res(302, "feishu_auth?state=" \o state),
                      [session EXCEPT !.feishuOAuthState = state])

\* A callback that leaves the used state in the session.
FeishuCallbackKeepsState(code, state, exchanged) ==
    LET rq == [op |-> "feishuCallback", code |-> code, state |-> state,
               exchanged |-> exchanged]
        savedState == session.feishuOAuthState
    IN  IF state = "" \/ savedState = NULL \/ state # savedState
        THEN AuthStep(rq, Res(403, "state_mismatch"), session)
        ELSE IF code = "" THEN AuthStep(rq, Res(400, "no_code"), session)
        ELSE IF ~exchanged THEN AuthStep(rq, Res(500, "login_failed"), session)
        ELSE AuthStep(rq, Res(302, "/candidates"), [session EXCEPT !.user = FeishuUser])

\* app.get("/auth/feishu/callback") with req.query.code and req.query.state;
\* exchanged: getFeishuUserByCode(code) returns the user (it throws otherwise)
FeishuCallback(code, state, exchanged) ==
    LET rq == [op |-> "feishuCallback", code |-> code, state |-> state,
               exchanged |-> exchanged]
        savedState == session.feishuOAuthState
        cleared == [session EXCEPT !.feishuOAuthState = NULL]
    IN  IF state = "" \/ savedState = NULL \/ state # savedState
        THEN AuthStep(rq, Res(403, "state_mismatch"), session)
        ELSE IF code = "" THEN AuthStep(rq, Res(400, "no_code"), cleared)
        ELSE IF ~exchanged THEN AuthStep(rq, Res(500, "login_failed"), cleared)
        ELSE AuthStep(rq, Res(302, "/candidates"), [cleared EXCEPT !.user = FeishuUser])

\* A requireLogin that lets every request through.
requireLoginOpen(rq, Handler) == Handler

\* requireLogin in front of a handler: without a session user the request is
\* redirected and the handler never runs.
requireLogin(rq, Handler) ==
    IF session.user # NoUser THEN Handler
    ELSE AuthStep(rq, Res(302, "/login"), session)

\* app.use("/uploads", express.static(UPLOADS_DIR)), mounted off serverless
\* before every route and without requireLogin; stored: the file is there.
StaticUpload(stored) ==
    /\ ~cfg.serverless
    /\ AuthStep([op |-> "static", stored |-> stored],
                IF stored THEN Res(200, "file") ELSE Res(404, "not_found"), session)

\* app.get("/api/candidates/:id"): the candidate as loaded
GetCandidate(id, io) ==
    /\ clock < limit
    /\ LET now == clock + 1
           L == loadData(cfg, file, remote, io, now)
           idx == FindIndex(L.d.candidates, LAMBDA x : x.id = id)
           rq == [op |-> "getCandidate", id |-> id]
       IN  IF idx = 0 THEN NoSave(L, io, rq, Res(404, "not_found"))
           ELSE NoSave(L, io, rq, Res(200, Field(L.d.candidates[idx], "status")))

\* ------------------------------------------------- the specifications

Configs == [sb : BOOLEAN, serverless : BOOLEAN]

LocalOnly == [sb |-> FALSE, serverless |-> FALSE]

EmptyRemote == [c \in Collections |-> <<>>]

\* The time of the records stored before the first request
SeedTime == 1

\* What a stored candidate's status may be before the first request: a
\* stage, a string that is no stage, or (NULL) nothing at all.
SeedStatuses == {"wait_r1", BadStatus, NULL}

\* A store earlier requests (or an earlier version, or an editor) left: a
\* job, candidate c_0 with one record of every kind, a second candidate c_1,
\* and no users key (a document older than the users collection).
SeedDoc(s) ==
    [jobs |-> << [id |-> "job_x"] >>,
     candidates |->
        << IF s = NULL THEN [id |-> "c_0", follow |-> "to_contact"]
           ELSE [id |-> "c_0", status |-> s, follow |-> "to_contact"],
           [id |-> "c_1", status |-> "pass_r1", follow |-> "arrange_next"] >>,
     interviews |->
        << [id |-> "rv_0", candidateId |-> "c_0", round |-> 1, status |-> "wait_r1",
            rating |-> "B", interviewer |-> "li"],
           [id |-> "rv_1", candidateId |-> "c_1", round |-> 1, status |-> "wait_r1",
            rating |-> "A", interviewer |-> "li"] >>,
     interviewSchedules |->
        << [id |-> "sc_0", candidateId |-> "c_0", round |-> 1, scheduledAt |-> "2026-01-01",
            createdAt |-> SeedTime] >>,
     resumeFiles |-> << [id |-> "rf_0", candidateId |-> "c_0", url |-> "signed"] >>,
     events |->
        << [id |-> "ev_1", candidateId |-> "c_1", type |-> "create", message |-> "create",
            createdAt |-> SeedTime],
           [id |-> "ev_0", candidateId |-> "c_0", type |-> "create", message |-> "create",
            createdAt |-> SeedTime] >>,
     offers |-> << [id |-> "offer_0", candidateId |-> "c_0", offerStatus |-> "offer_pending"] >>]

\* The same store as the remote tables hold it, with the signed-in user's row
SeedRemote(s) ==
    [c \in Collections |->
        IF c = "users" THEN << [id |-> "u_0"] >>
        ELSE Rows(c, SeedDoc(s))]

NoRequest == [op |-> "none"]

\* The stores a run starts from, per configuration: nothing stored; the
\* seed in the file; the seed in the tables; the seed in both; the seed in
\* the file while the tables are empty (every upsert so far failed).
SeedStores(c) ==
    IF ~c.sb /\ c.serverless THEN { <<NoFile, EmptyRemote>> }
    ELSE IF ~c.sb
    THEN { <<NoFile, EmptyRemote>> } \cup { <<FileOf(SeedDoc(s)), EmptyRemote>> : s \in SeedStatuses }
    ELSE IF c.serverless
    THEN { <<NoFile, EmptyRemote>> } \cup { <<NoFile, SeedRemote(s)>> : s \in SeedStatuses }
    ELSE { <<NoFile, EmptyRemote>>,
           <<FileOf(SeedDoc("wait_r1")), SeedRemote("wait_r1")>>,
           <<FileOf(SeedDoc("wait_r1")), EmptyRemote>>,
           <<NoFile, SeedRemote("wait_r1")>> }

InitStore ==
    /\ cfg \in Configs
    /\ \E st \in SeedStores(cfg) : file = st[1] /\ remote = st[2]
    /\ clock = SeedTime
    /\ limit = SeedTime + MaxOps
    /\ req = NoRequest
    /\ res = Res(0, "")
    /\ session = DevSession
    /\ feishu = FeishuOff
    /\ outbox = <<>>
    /\ pend = NoPending

\* The I/O outcomes the store specification draws from; without the remote
\* backend only the file write is ever attempted.
StoreFaults(c) ==
    IF ~c.sb THEN {AllOk, FlagFault("lw")}
    ELSE {AllOk}
         \cup { FlagFault(f) : f \in {"admin", "lw", "sel", "selOffers", "del"} }
         \cup { UpFault("candidates", "fail"), UpFault("candidates", "slim"),
                UpFault("jobs", "fail") }

\* The candidate ids the requests name: a stored one and one stored nowhere
RequestIds == {"c_0", "c_none"}

\* (name, jobId) of the creation form
NewInputs ==
    { <<"", "job_x">>, <<" ", "job_x">>, <<"Zhang San", "">>, <<"Zhang San", " ">>,
      <<"Zhang San", "job_x">> }

NextStore ==
    \/ \E io \in StoreFaults(cfg) : JobNew(io)
    \/ \E io \in StoreFaults(cfg), id \in {"job_x", "job_none"} : JobDelete(id, io)
    \/ \E io \in StoreFaults(cfg), in \in NewInputs, hasFile \in BOOLEAN :
          CandidateNew(in[1], in[2], hasFile, io)
    \/ \E io \in StoreFaults(cfg), id \in RequestIds : CandidateDelete(id, io)
    \/ \E io \in StoreFaults(cfg), id \in RequestIds, s \in {"pass_r1", BadStatus} :
          SetStatus(id, s, io)
    \/ \E io \in StoreFaults(cfg), id \in RequestIds, g \in {"A", "C"} :
          Review(id, "1", "", g, "", io)

Spec == InitStore /\ [][NextStore]_vars

\* One request against a candidate in any stored stage: the specification of
\* the claims about what a single status or review request does.
AnyStoredStatus == STATUS_SET \cup {BadStatus, NULL}

InitPipeline ==
    /\ \/ cfg = LocalOnly /\ \E s \in AnyStoredStatus :
              file = FileOf(SeedDoc(s)) /\ remote = EmptyRemote
       \/ cfg = [sb |-> TRUE, serverless |-> TRUE] /\ \E s \in AnyStoredStatus :
              file = NoFile /\ remote = SeedRemote(s)
    /\ clock = SeedTime
    /\ limit = SeedTime + 1
    /\ req = NoRequest
    /\ res = Res(0, "")
    /\ session = DevSession
    /\ feishu = FeishuOff
    /\ outbox = <<>>
    /\ pend = NoPending

\* req.body.status: absent, every stage, a string that is no stage
StatusInputs == {""} \cup STATUS_SET \cup {BadStatus}

\* req.body.rating: absent, every rating letter, a letter that is none
RatingInputs == {""} \cup INTERVIEW_RATING \cup {"D"}

NextPipeline ==
    \/ \E id \in RequestIds, s \in StatusInputs : SetStatus(id, s, AllOk)
    \/ \E r \in RoundInputs, s \in StatusInputs, g \in RatingInputs :
          Review("c_0", r, s, g, "", AllOk)

SpecPipeline == InitPipeline /\ [][NextPipeline]_vars

\* ---------------------------------------------------------- the claims

\* What the next loadData() returns when its own I/O succeeds.
NextLoad == loadData(cfg, file, remote, AllOk, clock + 1).d

\* The status of candidate id in dataset d; NULL when d has no such
\* candidate or the candidate has no status.
StatusIn(d, id) ==
    LET i == FindIndex(EnsureDataShape(d).candidates, LAMBDA x : x.id = id)
    IN  IF i = 0 THEN NULL ELSE Field(EnsureDataShape(d).candidates[i], "status")

\* The stages the claims name by round: 待N面 and N面通过.
WaitStage(n) == STATUS_COLS[2 * n + 1]
PassStage(n) == STATUS_COLS[2 * n + 2]

\* The last request was a review with inputs the handler accepts.
ValidReview ==
    /\ req.op = "review"
    /\ req.id \in Ids(res.d.candidates)
    /\ NumberRound(req.round) \in INTERVIEW_ROUNDS
    /\ req.rating \in {""} \cup INTERVIEW_RATING
    /\ req.status \in {""} \cup STATUS_SET

\* C1: after loadData() every candidate's status is one of the 16 keys of
\* STATUS_COLS. The code breaks this: loadData returns a stored status as it
\* is, and only the page handlers replace an unrecognized one.
C1_LoadedStatusIsStage ==
    \A i \in DOMAIN NextLoad.candidates :
        Field(NextLoad.candidates[i], "status") \in STATUS_SET

\* The last request was a review the handler recorded.
SubmittedReview == req.op = "review" /\ res.code = 200

C3_FinalRoundTopRatingAwaitsOffer ==
    /\ (SubmittedReview /\ NumberRound(req.round) = 5 /\ req.rating = "S")
          => /\ StatusIn(res.d, req.id) = "wait_offer"
             /\ StatusIn(NextLoad, req.id) = "wait_offer"
    /\ (ValidReview /\ NumberRound(req.round) = 5 /\ req.rating = "S") => SubmittedReview

\* C3 witness: a round-5 review rated S, carrying status 待五面, answered with
\* the offer message and the candidate is stored as 待发offer.
C3_Witness ==
    /\ ValidReview /\ req.round = "5" /\ req.rating = "S" /\ req.status = "wait_r5"
    /\ res.code = 200 /\ res.autoFlowMsg = "auto_offer"
    /\ StatusIn(NextLoad, req.id) = "wait_offer"

LoadOf(c, f, rem, t) == loadData(c, f, rem, AllOk, t).d

\* The ids of the records of collection coll in dataset d that belong to
\* candidate cid, and of those that belong to anyone or anything else.
RecordsOf(d, coll, cid) ==
    IF coll = "candidates" THEN { x \in Ids(d[coll]) : x = cid }
    ELSE IF coll \in RelatedTables
    THEN { d[coll][i].id : i \in { k \in DOMAIN d[coll] : d[coll][k].candidateId = cid } }
    ELSE {}
OtherRecords(d, coll, cid) == Ids(d[coll]) \ RecordsOf(d, coll, cid)

\* The last request deleted a candidate that was there.
DeletedCandidate == req.op = "candidateDelete" /\ res.trace # <<>>

Saved == res.trace # <<>>

StoredDoc(f) == EnsureDataShape(IF f.exists THEN f.doc ELSE EmptyDoc)

\* A form field that is empty or nothing but blanks.
Blank(str) == str \in {"", " ", "  "}

\* C7: a creation request whose trimmed name or trimmed jobId is empty is
\* answered with a redirect to the creation form; no saveData is called, and
\* the file's dataset and the remote tables are what they were.
C7_InvalidCreationChangesNothing ==
    [][ (req'.op = "candidateNew" /\ (Blank(req'.name) \/ Blank(req'.jobId)))
          => /\ res'.code = 302
             /\ res'.out = "/candidates/new"
             /\ res'.trace = <<>>
             /\ remote' = remote
             /\ StoredDoc(file') = StoredDoc(file)
             /\ LoadOf(cfg', file', remote', clock' + 1) = LoadOf(cfg, file, remote, clock' + 1)
       ]_vars

\* C7 witness: a request with a name of blanks was redirected to the form
\* over a store that holds candidates.
C7_Witness ==
    /\ req.op = "candidateNew" /\ req.name = " " /\ req.jobId = "job_x"
    /\ res.out = "/candidates/new"
    /\ Len(NextLoad.candidates) = 2

\* C8: a status request for a stored candidate with a status s of STATUS_COLS
\* is accepted and leaves the candidate with exactly s, in the dataset saved
\* and in the next load, whatever the stored status was.
C8_StatusRequestSetsAnyStage ==
    (req.op = "status" /\ req.id \in Ids(res.d.candidates) /\ req.status \in STATUS_SET)
        => /\ res.code = 200
           /\ StatusIn(res.d, req.id) = req.status
           /\ StatusIn(NextLoad, req.id) = req.status

\* C8 witness: a candidate stored as 入职 was moved back to 待筛选.
C8_Witness ==
    /\ req.op = "status" /\ req.status = "pending_screen" /\ res.code = 200
    /\ StatusIn(NextLoad, req.id) = "pending_screen"
    /\ res.d.events[1].message = StatusMsg("hired", "pending_screen")

\* The call trace tr has no remote upsert before position n.
NoUpsertBefore(tr, n) ==
    \A i \in 1..(n - 1) : i \in DOMAIN tr => tr[i] \in {"saveDataLocal", "writeFileSync"}

\* C9 as stated: saveData never rejects, and the file write is attempted
\* before any remote upsert, in every saveData.
C9_LocalWriteAlwaysAttemptedFirst ==
    /\ res.code # 500
    /\ Saved => \E i \in DOMAIN res.trace :
                  res.trace[i] = "writeFileSync" /\ NoUpsertBefore(res.trace, i)

\* C9 amended: saveData never rejects, so no request ends in the error
\* middleware whichever I/O call failed; and every saveData starts with
\* saveDataLocal before any remote upsert, which attempts the file write
\* except on serverless, where it returns without writing.
C9_SaveNeverThrowsLocalFirst ==
    /\ res.code # 500
    /\ Saved => /\ res.trace[1] = "saveDataLocal"
                /\ ~cfg.serverless => (Len(res.trace) >= 2 /\ res.trace[2] = "writeFileSync")
                /\ \A i \in DOMAIN res.trace :
                      res.trace[i] \in {"saveDataLocal", "writeFileSync"}
                          => NoUpsertBefore(res.trace, i)

\* C9 witness: the file write of a creation failed, the remote upserts were
\* still made after the attempt, and the request was answered as usual.
C9_Witness ==
    /\ req.op = "candidateNew" /\ Saved /\ ~res.clean
    /\ res.code = 302 /\ res.out # "/candidates/new"
    /\ cfg.sb /\ ~cfg.serverless
    /\ Ids(res.d.candidates) \ Ids(StoredDoc(file).candidates) # {}
    /\ Ids(res.d.candidates) \subseteq Ids(remote.candidates)
    /\ Len(res.trace) > 2 /\ res.trace[3] = "upsert:jobs"

\* C10: off serverless with the remote backend on, loadData() returns every
\* local record whose id the remote lacks, for every collection. The code
\* breaks this for jobs, which loadData never merges.
C10_LocalOnlyRecordsAreLoaded ==
    (cfg.sb /\ ~cfg.serverless)
        => \A coll \in Collections :
              Ids(StoredDoc(file)[coll]) \ Ids(remote[coll]) \subseteq Ids(NextLoad[coll])

\* The last saveData reached the remote backend and the upsert of some
\* collection with rows failed, full attempt and retry.
SomeUpsertFailed ==
    /\ Saved /\ cfg.sb /\ res.io.admin
    /\ \E c \in Collections : res.io.up[c] = "fail" /\ Len(EnsureDataShape(res.d)[c]) > 0

\* C11: when the upsert of one collection fails during saveData, the rows of
\* every other collection, offers and users included, are still upserted.
\* The code breaks this for offers and users: their upserts come after the
\* await of the six, which a failure among the six skips.
C11_OtherUpsertsStillMade ==
    SomeUpsertFailed
        => \A c \in Collections :
              res.io.up[c] # "fail"
                  => Ids(EnsureDataShape(res.d)[c]) \subseteq Ids(remote[c])

\* ------------------------------------------------ the login specification

\* Logins, logouts and guarded requests of one browser, whose cookie starts
\* with a user in it: a cookie without a user is one /logout emptied.
FeishuSession == [user |-> FeishuUser, feishuOAuthState |-> NULL]

InitAuth ==
    /\ cfg = LocalOnly
    /\ file \in {NoFile, FileOf(SeedDoc("wait_r1"))}
    /\ remote = EmptyRemote
    /\ clock = SeedTime
    /\ limit = SeedTime + MaxAuthSteps
    /\ req = NoRequest
    /\ res = Res(0, "")
    /\ session \in {DevSession, FeishuSession}
    /\ feishu = FeishuOn
    /\ outbox = <<>>
    /\ pend = NoPending

\* (code, state, exchange succeeds) of the callback requests: the state the
\* session holds with a good code, with a failing exchange and without a
\* code; a forged state; no state; the state of the callback just made.
CallbackInputs ==
    { <<"code", IF req.op = "feishuCallback" THEN req.state ELSE "st_forged", TRUE>>,
      <<"code", OrDefault(session.feishuOAuthState, "st_none"), TRUE>>,
      <<"code", OrDefault(session.feishuOAuthState, "st_none"), FALSE>>,
      <<"", OrDefault(session.feishuOAuthState, "st_none"), TRUE>>,
      <<"code", "st_forged", TRUE>>,
      <<"code", "", TRUE>> }

NextAuth ==
    \/ \E name \in {"", UserName} : Login(name)
    \/ Logout
    \/ FeishuStart
    \/ \E in \in CallbackInputs : FeishuCallback(in[1], in[2], in[3])
    \/ requireLogin([op |-> "status", id |-> "c_0", status |-> "pass_r1"],
                    SetStatus("c_0", "pass_r1", AllOk))
    \/ requireLogin([op |-> "jobNew"], JobNew(AllOk))
    \/ requireLogin([op |-> "getCandidate", id |-> "c_0"], GetCandidate("c_0", AllOk))
    \/ \E stored \in BOOLEAN : StaticUpload(stored)

SpecAuth == InitAuth /\ [][NextAuth]_vars

\* The routes index.mjs registers with app.get / app.post, every one of them
\* behind requireLogin; the modelled ones.
GuardedRoutes == {"status", "jobNew", "getCandidate"}

\* What index.mjs registers besides the four login routes: the guarded routes
\* and the /uploads mount.
RegisteredRoutes == GuardedRoutes \cup {"static"}

\* C12: a request to any route index.mjs registers, the login routes apart,
\* whose session holds no user is redirected to /login; it reads and writes
\* nothing of the record store and dispatches no notification. This holds
\* after /logout until a login puts a user into the session again.
C12_NoUserNoAccess ==
    [][ (req'.op \in RegisteredRoutes /\ session.user = NoUser)
          => /\ res'.code = 302 /\ res'.out = "/login"
             /\ res'.d = EmptyDoc /\ res'.trace = <<>>
             /\ file' = file /\ remote' = remote
             /\ outbox' = outbox /\ session' = session ]_vars

\* C12 over the routes declared with requireLogin only: these do redirect a
\* request without a session user and touch nothing.
C12_GuardedRoutesRedirect ==
    [][ (req'.op \in GuardedRoutes /\ session.user = NoUser)
          => /\ res'.code = 302 /\ res'.out = "/login"
             /\ res'.d = EmptyDoc /\ res'.trace = <<>>
             /\ file' = file /\ remote' = remote
             /\ outbox' = outbox /\ session' = session ]_vars

\* C12 witness: after a logout emptied the cookie, a status request was
\* redirected to /login over a store that holds the candidate.
C12_Witness ==
    /\ req.op = "status" /\ res.out = "/login" /\ session = NoSession
    /\ file.exists /\ StatusIn(file.doc, "c_0") = "wait_r1"
    /\ outbox = <<>>

\* ------------------------------------------------ the token specification

\* Seconds before the expiry Feishu announces at which the cache gives up
\* the token.
TokenMargin == 300

\* What the token endpoint answers with: a token living expire seconds, or
\* an error code.
TokenAnswers(now) ==
    { [code |-> 0, tenant_access_token |-> "t_" \o ToString(now), expire |-> e]
        : e \in {TokenMargin, TokenMargin + 1, TokenMargin + 2} }
    \cup { [code |-> 99991663, tenant_access_token |-> "", expire |-> 0] }

\* A cache check that still hands out the token at the instant it expires.
getTenantAccessTokenInclusive(cache, now, later, data) ==
    IF cache.token # "" /\ now <= cache.expiresAt
    THEN [token |-> cache.token, cache |-> cache, threw |-> FALSE, fetched |-> FALSE]
    ELSE IF data.code # 0
    THEN [token |-> "", cache |-> cache, threw |-> TRUE, fetched |-> TRUE]
    ELSE [token |-> data.tenant_access_token,
          cache |-> [token |-> data.tenant_access_token,
                     expiresAt |-> later + (data.expire - TokenMargin) * 1000],
          threw |-> FALSE, fetched |-> TRUE]

\* getTenantAccessToken(): now is Date.now() at the check, later is
\* Date.now() once the answer data has arrived (milliseconds).
getTenantAccessToken(cache, now, later, data) ==
    IF cache.token # "" /\ now < cache.expiresAt
    THEN [token |-> cache.token, cache |-> cache, threw |-> FALSE, fetched |-> FALSE]
    ELSE IF data.code # 0
    THEN [token |-> "", cache |-> cache, threw |-> TRUE, fetched |-> TRUE]
    ELSE [token |-> data.tenant_access_token,
          cache |-> [token |-> data.tenant_access_token,
                     expiresAt |-> later + (data.expire - TokenMargin) * 1000],
          threw |-> FALSE, fetched |-> TRUE]

\* One call of getTenantAccessToken(); the request, when one is made, takes
\* wait half seconds.
GetToken(data, wait) ==
    LET now == clock
        later == clock + wait * 500
        T == getTenantAccessToken(feishu.cache, now, later, data)
    IN  /\ later <= limit
        /\ req' = [op |-> "token", now |-> now, data |-> data, wait |-> wait]
        /\ res' = [Res(IF T.threw THEN 500 ELSE 200, T.token)
                     EXCEPT !.trace = IF T.fetched THEN <<"fetch">> ELSE <<>>]
        /\ feishu' = [feishu EXCEPT !.cache = T.cache]
        /\ clock' = IF T.fetched THEN later ELSE now
        /\ UNCHANGED <<cfg, file, remote, limit, session, outbox, pend>>

\* Half a second passes.
Tick ==
    /\ clock + 500 <= limit
    /\ clock' = clock + 500
    /\ UNCHANGED <<cfg, file, remote, limit, req, res, session, feishu, outbox, pend>>

InitToken ==
    /\ cfg = LocalOnly
    /\ file = NoFile
    /\ remote = EmptyRemote
    /\ clock = 1000
    /\ limit = 1000 + MaxTokenTicks * 500
    /\ req = NoRequest
    /\ res = Res(0, "")
    /\ session = FeishuSession
    /\ feishu = FeishuOn
    /\ outbox = <<>>
    /\ pend = NoPending

NextToken ==
    \/ \E data \in TokenAnswers(clock), wait \in {0, 1} : GetToken(data, wait)
    \/ Tick

SpecToken == InitToken /\ [][NextToken]_vars

\* The call found a token in the cache.
Cached == feishu.cache.token # ""

\* C13: with a token cached and the time before its recorded expiry the call
\* makes no request and returns the cached token; a call that made no
\* request never ran at or after the expiry; a failed answer makes the call
\* throw and leaves the cache as it was. The recorded expiry is the time
\* the answer arrived plus expire - 300 seconds.
C13_TokenCachedUntilExpiry ==
    [][ req'.op = "token" /\ (req' # req \/ res' # res \/ feishu' # feishu)
          => /\ (Cached /\ clock < feishu.cache.expiresAt)
                   => /\ res'.trace = <<>> /\ res'.code = 200
                      /\ res'.out = feishu.cache.token
                      /\ feishu' = feishu
             /\ res'.trace = <<>> => (Cached /\ clock < feishu.cache.expiresAt)
             /\ (res'.trace = <<"fetch">> /\ req'.data.code # 0)
                   => res'.code = 500 /\ feishu' = feishu
             /\ (res'.trace = <<"fetch">> /\ req'.data.code = 0)
                   => /\ res'.out = req'.data.tenant_access_token
                      /\ feishu'.cache.token = res'.out
                      /\ feishu'.cache.expiresAt
                             = clock' + (req'.data.expire - TokenMargin) * 1000 ]_vars

\* C13 witness: a call answered from the cache half a second before the
\* token's expiry, at a time the endpoint would have answered with an error.
C13_Witness ==
    /\ req.op = "token" /\ res.trace = <<>> /\ res.code = 200
    /\ res.out = feishu.cache.token
    /\ feishu.cache.expiresAt = clock + 500
    /\ req.data.code # 0

\* ------------------------------------------ the notification specification

\* A dispatched call runs to its end: it asks for the tenant token (data is
\* what the token endpoint answers when asked), posts to Feishu, and catches
\* whatever fails on the way; the promise the handler dropped settles.
Settle(data) ==
    /\ outbox # <<>>
    /\ LET T == getTenantAccessToken(feishu.cache, clock * 1000, clock * 1000, data)
       IN  feishu' = [feishu EXCEPT !.cache = T.cache]
    /\ outbox' = Tail(outbox)
    /\ UNCHANGED <<cfg, file, remote, clock, limit, req, res, session, pend>>

\* The seed with the users collection: an interviewer with an open id, one
\* without.
NotifyDoc ==
    SetField(SeedDoc("wait_r1"), "users",
             << [id |-> "u_li", name |-> "li", openId |-> "ou_li"],
                [id |-> "u_wang", name |-> "wang", openId |-> ""] >>)

InitNotify ==
    /\ cfg \in {LocalOnly, [sb |-> TRUE, serverless |-> FALSE]}
    /\ file = FileOf(NotifyDoc)
    /\ remote = EmptyRemote
    /\ clock = SeedTime
    /\ limit = SeedTime + MaxNotifyOps
    /\ req = NoRequest
    /\ res = Res(0, "")
    /\ session \in {DevSession, FeishuSession}
    /\ feishu \in {FeishuOff, FeishuOn, FeishuApproval}
    /\ outbox = <<>>
    /\ pend = NoPending

\* req.body of the schedule requests: round, scheduledAt, interviewers,
\* syncStatus, syncCalendar
ScheduleInputs ==
    { <<"1", "2026-02-02 10:00", "li, wang", "", "on">>,
      <<"1", "2026-02-02 10:00", "li", "pass_r1", "off">>,
      <<"2", "2026-02-02 10:00", "", "", "on">>,
      <<"2", "soon", "li", BadStatus, "on">>,
      <<"2", "", "li", "", "on">>,
      <<"6", "2026-02-02 10:00", "li", "", "on">> }

\* req.body.offerStatus: absent, two lifecycle states, the state the handler
\* starts an approval on, a string that is none
OfferInputs == {"", "offer_issued", "offer_accepted", "pending_approval", BadStatus}

NextNotify ==
    \/ \E id \in RequestIds, io \in {AllOk, FlagFault("lw")} : SetStatus(id, "pass_r1", io)
    \/ \E in \in ScheduleInputs :
          Schedule("c_0", in[1], in[2], in[3], in[4], in[5], AllOk)
    \/ \E id \in RequestIds, s \in OfferInputs : Offer(id, s, AllOk)
    \/ \E data \in TokenAnswers(clock * 1000) : Settle(data)

SpecNotify == InitNotify /\ [][NextNotify]_vars

\* The functions of feishu.mjs the handlers call without awaiting
NotifyFns == {"sendFeishuMessage", "createFeishuCalendarEvent", "createApprovalInstance"}

\* The last n entries of sequence s are the functions of the calls cs,
\* followed by the response.
EndsWithCalls(s, cs) ==
    /\ Len(s) > Len(cs)
    /\ s[Len(s)] = "respond"
    /\ \A i \in DOMAIN cs : s[Len(s) - 1 - Len(cs) + i] = cs[i].fn
    /\ \A i \in 1..(Len(s) - 1 - Len(cs)) : s[i] \notin NotifyFns \cup {"respond"}
    /\ Len(s) - 1 - Len(cs) >= 1 /\ s[1] = "saveDataLocal"

\* C14: in the status, schedule and offer handlers every notification call
\* is dispatched after saveData has run to its end and before the response,
\* which is written while the calls are still unsettled; the settling of a
\* call, failed or not, changes neither the stored data nor the response.
C14_NotifyAfterSaveNeverBlocks ==
    [][ /\ (req'.op \in {"status", "schedule", "offer"} /\ clock' = clock + 1
               /\ outbox' # outbox)
          => /\ Len(outbox') > Len(outbox)
             /\ SubSeq(outbox', 1, Len(outbox)) = outbox
             /\ EndsWithCalls(res'.trace,
                              SubSeq(outbox', Len(outbox) + 1, Len(outbox')))
             /\ res'.code \in {200, 302}
             /\ StoredDoc(file') = EnsureDataShape(res'.d) \/ ~res'.io.lw
        /\ (clock' = clock /\ Len(outbox') < Len(outbox))
          => /\ file' = file /\ remote' = remote /\ res' = res /\ req' = req ]_vars

\* C14 witness: a schedule request was answered {ok: true} with the calendar
\* call and the interviewer's message dispatched after the save; the first
\* call has since settled with the token request refused, and the stored
\* schedule and the response are as the handler left them.
C14_Witness ==
    /\ req.op = "schedule" /\ res.code = 200
    /\ Len(res.trace) >= 4
    /\ res.trace[Len(res.trace) - 2] = "createFeishuCalendarEvent"
    /\ res.trace[Len(res.trace) - 1] = "sendFeishuMessage"
    /\ Len(outbox) = 1 /\ outbox[1].fn = "sendFeishuMessage" /\ outbox[1].to = "ou_li"
    /\ feishu.cache = EmptyCache
    /\ StoredDoc(file) = EnsureDataShape(res.d)
    /\ \E i \in DOMAIN res.d.interviewSchedules :
          res.d.interviewSchedules[i].scheduledAt = "2026-02-02 10:00"

\* ------------------------------------------- the concurrency specification

\* With the remote backend on, loadData() and saveData() wait for the
\* network, and the handler of another request runs in between. pend holds,
\* per request, the dataset it loaded and changed, and when it loaded and
\* saved (0: not yet).

\* The status handler up to its `await saveData(d)`.
StatusBegin(id, status0, io) ==
    /\ Len(pend) < MaxRaceReqs
    /\ clock < limit
    /\ LET now == clock + 1
           L == loadData(cfg, file, remote, io, now)
           idx == FindIndex(L.d.candidates, LAMBDA x : x.id = id)
           rq == [op |-> "status", id |-> id, status |-> status0]
           c == L.d.candidates[idx]
           old == OrDefault(Field(c, "status"), "pending_screen")
           new == StatusTarget(c, status0)
           d == pushEvent([L.d EXCEPT !.candidates[idx] = SetField(c, "status", new)],
                          c.id, "status_flow", StatusMsg(old, new), now, 0)
       IN  IF idx = 0 THEN NoSave(L, io, rq, Res(404, "not_found"))
           ELSE /\ pend' = Append(pend, [rq |-> rq, d |-> d, event |-> rid("ev", now, 0),
                                         old |-> Field(c, "status"), new |-> new,
                                         loadedAt |-> now, savedAt |-> 0, io |-> AllOk])
                /\ file' = L.file
                /\ req' = rq
                /\ res' = [Res(0, "") EXCEPT !.d = L.d, !.io = io]
                /\ clock' = now
                /\ UNCHANGED <<cfg, remote, limit, session, feishu, outbox>>

\* The rest of the status handler: saveData(d), the notification, the response.
StatusFinish(i, io) ==
    /\ i \in DOMAIN pend
    /\ pend[i].savedAt = 0
    /\ LET p == pend[i]
           S == saveData(cfg, file, remote, p.d, io)
           calls == IF feishu.enabled /\ session.user.openId # ""
                    THEN << Call("sendFeishuMessage", session.user.openId, p.rq.id) >>
                    ELSE <<>>
       IN  /\ file' = S.file
           /\ remote' = S.remote
           /\ req' = p.rq
           /\ res' = IF S.threw
                     THEN [code |-> 500, out |-> "error", d |-> p.d, trace |-> S.trace,
                           clean |-> (io = AllOk), io |-> io]
                     ELSE [Res(200, "ok") EXCEPT !.d = p.d,
                                                 !.trace = HandlerTail(S.trace, calls),
                                                 !.clean = (io = AllOk), !.io = io]
           /\ outbox' = IF S.threw THEN outbox ELSE outbox \o calls
           /\ pend' = [pend EXCEPT ![i].savedAt = clock + 1, ![i].io = io]
           /\ clock' = clock + 1
           /\ UNCHANGED <<cfg, limit, session, feishu>>

InitRace ==
    /\ cfg = [sb |-> TRUE, serverless |-> FALSE]
    /\ \/ file = FileOf(SeedDoc("wait_r1")) /\ remote = EmptyRemote
       \/ file = FileOf(SeedDoc("wait_r1")) /\ remote = SeedRemote("wait_r1")
    /\ clock = SeedTime
    /\ limit = SeedTime + 2 * MaxRaceReqs
    /\ req = NoRequest
    /\ res = Res(0, "")
    /\ session = DevSession
    /\ feishu = FeishuOff
    /\ outbox = <<>>
    /\ pend = <<>>

NextRace ==
    \/ \E id \in {"c_0", "c_1"}, s \in {"pass_r2", "rejected"} : StatusBegin(id, s, AllOk)
    \/ \E i \in 1..MaxRaceReqs, io \in {AllOk, FlagFault("lw")} : StatusFinish(i, io)

SpecRace == InitRace /\ [][NextRace]_vars

\* Requests i and j, the only two that changed anything, both loaded before
\* either saved; both have saved with the file written, and j saved last.
RacedLastWriter(i, j) ==
    /\ Len(pend) = 2
    /\ i \in DOMAIN pend /\ j \in DOMAIN pend /\ i # j
    /\ pend[i].savedAt > 0 /\ pend[j].savedAt > pend[i].savedAt
    /\ pend[i].loadedAt < pend[i].savedAt /\ pend[j].loadedAt < pend[i].savedAt
    /\ pend[i].io.lw /\ pend[j].io.lw

RoundOutside(raw) == raw \in {"0", "6", "x"}

\* The review request carries a round outside 1..5, a non-empty rating that
\* is no rating letter, or a status that is no stage.
MalformedReview(rq) ==
    \/ RoundOutside(rq.round)
    \/ (rq.rating # "" /\ rq.rating \notin INTERVIEW_RATING)
    \/ (rq.status # "" /\ rq.status \notin STATUS_SET)

\* C16: a review request for a stored candidate with a round outside 1..5,
\* a non-empty rating outside the rating letters or a status outside
\* STATUS_COLS is answered 400 with invalid_round, invalid_rating or
\* invalid_status, and the stored interviews, candidate and events stay as
\* they were.
C16_MalformedReviewRejected ==
    [][ (req'.op = "review" /\ clock' = clock + 1 /\ MalformedReview(req')
            /\ req'.id \in Ids(res'.d.candidates))
          => /\ res'.code = 400
             /\ res'.out \in {"invalid_round", "invalid_rating", "invalid_status"}
             /\ file' = file /\ remote' = remote ]_vars

\* C17: a status request for a stored candidate that carries no status, or a
\* status that is no key of STATUS_COLS, is answered {ok: true} and leaves
\* the candidate at 待筛选 in the dataset saved and in the next load,
\* whatever stage the candidate was stored at.
C17_InvalidStatusCoercedToInitial ==
    (req.op = "status" /\ req.id \in Ids(res.d.candidates) /\ req.status \notin STATUS_SET)
        => /\ res.code = 200 /\ res.out = "ok"
           /\ StatusIn(res.d, req.id) = "pending_screen"
           /\ StatusIn(NextLoad, req.id) = "pending_screen"

\* C17 witness: a candidate stored at 待发offer was sent back to 待筛选 by a
\* request whose status names no stage.
C17_Witness ==
    /\ req.op = "status" /\ req.status = BadStatus /\ res.code = 200
    /\ StatusIn(NextLoad, req.id) = "pending_screen"
    /\ res.d.events[1].message = StatusMsg("wait_offer", "pending_screen")

\* C18: a recorded review rated B- or C leaves the candidate at exactly the
\* status the request carried (待一面 when it carried none), so at 淘汰 only
\* when the request said 淘汰, and answers with a non-empty autoFlowMsg.
C18_LowRatingIsAdvisory ==
    (SubmittedReview /\ req.rating \in {"B-", "C"})
        => /\ StatusIn(res.d, req.id) = OrDefault(req.status, "wait_r1")
           /\ StatusIn(NextLoad, req.id) = OrDefault(req.status, "wait_r1")
           /\ res.autoFlowMsg # ""
           /\ StatusIn(NextLoad, req.id) = "rejected" => req.status = "rejected"

\* C18 witness: a round-3 review rated B- and carrying 待三面 left a candidate
\* stored at 二面通过 at 待三面, with the advice to reject.
C18_Witness ==
    /\ SubmittedReview /\ req.rating = "B-" /\ req.round = "3" /\ req.status = "wait_r3"
    /\ StatusIn(NextLoad, req.id) = "wait_r3"
    /\ res.autoFlowMsg = "suggest_reject"
    /\ res.d.events[1].message = StatusMsg("pass_r2", "wait_r3")

\* ------------------------------------------- the submission specification

\* Sequences of schedule, review and offer submissions over a stored
\* candidate, on the local document and on the remote tables.
InitSeq ==
    /\ \/ cfg = LocalOnly /\ file = FileOf(SeedDoc("wait_r1")) /\ remote = EmptyRemote
       \/ /\ cfg = [sb |-> TRUE, serverless |-> TRUE]
          /\ file = NoFile /\ remote = SeedRemote("wait_r1")
    /\ clock = SeedTime
    /\ limit = SeedTime + MaxSeqOps
    /\ req = NoRequest
    /\ res = Res(0, "")
    /\ session = DevSession
    /\ feishu = FeishuOff
    /\ outbox = <<>>
    /\ pend = NoPending

\* req.body of the schedule submissions: ScheduleInputs, and rounds that are
\* absent, 0, 5 and no number
SeqScheduleInputs ==
    ScheduleInputs
        \cup { <<r, "2026-02-02 10:00", "li", "", "off">> : r \in {"absent", "0", "5", "x"} }

\* (round, status, rating) of the review submissions
SeqReviewInputs == {"0", "2", "6", "x"} \X {"", "wait_r2"} \X {"A", "D"}

NextSeq ==
    \/ \E in \in SeqScheduleInputs :
          Schedule("c_0", in[1], in[2], in[3], in[4], in[5], AllOk)
    \/ \E in \in SeqReviewInputs : Review("c_0", in[1], in[2], in[3], "", AllOk)
    \/ \E id \in {"c_0", "c_1"}, s \in OfferInputs : Offer(id, s, AllOk)

SpecSeq == InitSeq /\ [][NextSeq]_vars

\* The datasets that are persisted: the local document, and what the next
\* load returns from the tables and the document.
PersistedDocs == {StoredDoc(file), NextLoad}

\* C19: after any sequence of schedule and review submissions every
\* persisted schedule and every persisted review has a round among 1..5, and
\* every persisted review a rating that is empty or one of S, A, B+, B, B-, C;
\* the rows of the remote tables too.
C19_PersistedRoundsAndRatingsValid ==
    /\ \A d \in PersistedDocs :
          /\ \A i \in DOMAIN d.interviewSchedules :
                d.interviewSchedules[i].round \in {1, 2, 3, 4, 5}
          /\ \A i \in DOMAIN d.interviews :
                /\ d.interviews[i].round \in {1, 2, 3, 4, 5}
                /\ d.interviews[i].rating \in {"", "S", "A", "B+", "B", "B-", "C"}
    /\ \A i \in DOMAIN remote.interviewSchedules :
          remote.interviewSchedules[i].round \in {1, 2, 3, 4, 5}
    /\ \A i \in DOMAIN remote.interviews :
          /\ remote.interviews[i].round \in {1, 2, 3, 4, 5}
          /\ remote.interviews[i].rating \in {NULL, "", "S", "A", "B+", "B", "B-", "C"}

\* C19 witness: after a schedule for round 5 and a review of round 2 rated A
\* the store holds both, beside the seed's round-1 records.
C19_Witness ==
    /\ req.op = "review" /\ res.code = 200 /\ req.round = "2" /\ req.rating = "A"
    /\ \E i \in DOMAIN NextLoad.interviewSchedules : NextLoad.interviewSchedules[i].round = 5
    /\ \E i \in DOMAIN NextLoad.interviews :
          NextLoad.interviews[i].round = 2 /\ NextLoad.interviews[i].rating = "A"
    /\ Len(NextLoad.interviews) = 3

\* C20: after any sequence of offer submissions every persisted offer's
\* offerStatus is one of the five states of OFFER_STATUSES.
C20_PersistedOfferStatusValid ==
    \A d \in PersistedDocs :
        \A i \in DOMAIN d.offers : d.offers[i].offerStatus \in OFFER_STATUSES

\* --------------------------------------------------- the OAuth callback

\* The callback's state parameter is the one /auth/feishu stored in the session.
StateMatches(rq, sess) ==
    rq.state # "" /\ sess.feishuOAuthState # NULL /\ rq.state = sess.feishuOAuthState

\* C30: the callback puts a user into the session only when its state is
\* non-empty and equals the state /auth/feishu stored in the session, a code
\* came with it and the exchange of the code succeeded; with a missing or
\* mismatched state it answers 403 and leaves the session as it was; once
\* the state has matched it is cleared from the session, so a second
\* callback with the same state is answered 403.
C30_CallbackNeedsMatchingUnusedState ==
    [][ (req'.op = "feishuCallback" /\ clock' = clock + 1)
          => /\ (session'.user # session.user \/ res'.out = "/candidates")
                   => /\ StateMatches(req', session)
                      /\ req'.code # "" /\ req'.exchanged
                      /\ session'.user = FeishuUser
             /\ ~StateMatches(req', session)
                   => res'.code = 403 /\ session' = session
             /\ StateMatches(req', session) => session'.feishuOAuthState = NULL
             /\ (req.op = "feishuCallback" /\ res.code # 403 /\ req'.state = req.state)
                   => res'.code = 403 /\ session' = session ]_vars

\* C30 witness: the callback that logged the Feishu user in was sent a
\* second time with the same state and was answered 403.
C30_Witness ==
    /\ req.op = "feishuCallback" /\ res.code = 403
    /\ req.state = rid("st", SeedTime + 1, 0)
    /\ session.user = FeishuUser /\ session.feishuOAuthState = NULL
    /\ clock = SeedTime + 3

\* ------------------------------------------------------- the event log

\* The events of dataset d are in non-increasing createdAt order.
NewestFirst(d) ==
    \A i, j \in DOMAIN d.events : i < j => d.events[i].createdAt >= d.events[j].createdAt

\* Sequence s ends with sequence t.
EndsWith(s, t) ==
    Len(s) >= Len(t) /\ \A i \in DOMAIN t : s[Len(s) - Len(t) + i] = t[i]

\* A handler that saved put its new events in front of the events it
\* loaded and left those as they were.
C21_EventsOnlyPrepended ==
    [][ (clock' = clock + 1 /\ res'.trace # <<>> /\ req'.op # "candidateDelete")
          => EndsWith(res'.d.events, loadData(cfg, file, remote, res'.io, clock').d.events)
      ]_vars

\* No request but the deletion of a candidate removes an event from what
\* loadData() returns.
C21_EventsNeverRemoved ==
    [][ (clock' = clock + 1 /\ req'.op # "candidateDelete")
          => Ids(NextLoad.events) \subseteq Ids(NextLoad'.events) ]_vars

\* C21: the event log is append-only and newest-first: in every dataset
\* loadData() returns the events are in non-increasing createdAt order.
C21_LoadedEventsNewestFirst == NewestFirst(NextLoad)

\* ---------------------------------------- the empty-store specification

\* A store nothing was ever written to, and the requests that create and
\* move candidates.
InitEmpty ==
    /\ cfg \in {LocalOnly, [sb |-> TRUE, serverless |-> TRUE]}
    /\ file = NoFile
    /\ remote = EmptyRemote
    /\ clock = SeedTime
    /\ limit = SeedTime + MaxEmptyOps
    /\ req = NoRequest
    /\ res = Res(0, "")
    /\ session = DevSession
    /\ feishu = FeishuOff
    /\ outbox = <<>>
    /\ pend = NoPending

\* req.params.id: every candidate there is, and one there is not
TargetIds == Ids(NextLoad.candidates) \cup {"c_none"}

NextEmpty ==
    \/ CandidateNew("Zhang San", "job_x", FALSE, AllOk)
    \/ \E names \in {<<>>, <<"">>, <<"Li", "", "Wang">>} : Import(TRUE, names, AllOk)
    \/ Import(FALSE, <<>>, AllOk)
    \/ \E id \in TargetIds, s \in {"", "hired", BadStatus} : SetStatus(id, s, AllOk)
    \/ \E id \in TargetIds, r \in {"1", "5"}, s \in {"", "rejected", BadStatus} :
          Schedule(id, r, "2026-02-02 10:00", "li", s, "off", AllOk)
    \/ \E id \in TargetIds, g \in {"A", "C", "D"}, s \in {"", "wait_r5", BadStatus} :
          Review(id, "5", s, g, "", AllOk)
    \/ \E id \in TargetIds, s \in {"offer_accepted", BadStatus} : Offer(id, s, AllOk)

SpecEmpty == InitEmpty /\ [][NextEmpty]_vars

\* C22: from the empty store, after any sequence of creation, import,
\* status, schedule, review and offer requests, every candidate's stored
\* status is one of the 16 keys of STATUS_COLS: in the local document, in
\* the rows of the remote table and in what the next loadData() returns.
C22_StoredStatusIsStage ==
    /\ \A d \in PersistedDocs :
          \A i \in DOMAIN d.candidates : Field(d.candidates[i], "status") \in STATUS_SET
    /\ \A i \in DOMAIN remote.candidates : remote.candidates[i].status \in STATUS_SET

\* C22 witness: a created candidate and two imported ones are stored, and
\* a status request naming no stage has just put one of them at 待筛选.
C22_Witness ==
    /\ Len(NextLoad.candidates) = 3
    /\ req.op = "status" /\ req.status = BadStatus /\ res.code = 200
    /\ StatusIn(NextLoad, req.id) = "pending_screen"

\* ------------------------------------------------ deletion and stale saves

\* Status requests in two halves as in SpecRace, with whole deletion requests
\* running between a request's loadData() and its saveData().
NextStale ==
    \/ \E id \in {"c_0", "c_1"}, status0 \in {"pass_r2"} : StatusBegin(id, status0, AllOk)
    \/ \E i \in 1..MaxRaceReqs : StatusFinish(i, AllOk)
    \/ \E id \in {"c_0", "c_1"} : CandidateDelete(id, AllOk)

SpecStale == InitRace /\ [][NextStale]_vars

\* No loadData() returns candidate id or a record carrying its candidateId.
GoneFrom(d, id) ==
    /\ id \notin Ids(d.candidates)
    /\ \A c \in {"interviews", "interviewSchedules", "resumeFiles", "events", "offers"} :
          \A i \in DOMAIN d[c] : d[c][i].candidateId # id

\* C23: a deleted candidate stays deleted: once the deletion has completed
\* and loadData() returns neither the candidate nor a record of it, no later
\* request brings either back, not even the saveData() of a request that
\* had loaded before the deletion. (The candidates of this store are there
\* from the start and none is created, so one that is gone was deleted.)
C23_DeletedStaysDeleted ==
    [][ \A id \in {"c_0", "c_1"} :
          GoneFrom(NextLoad, id) => GoneFrom(NextLoad', id) ]_vars

\* --------------------------------------------- updates and remote failures

\* The last request was a status change of a stored candidate, made with
\* the remote backend on outside serverless, whose candidates upsert failed
\* outright or went through on the reduced columns, the rest succeeding.
StatusSetRemoteWriteFailed ==
    /\ cfg.sb /\ ~cfg.serverless
    /\ req.op = "status"
    /\ req.status \in STATUS_SET
    /\ res.code = 200
    /\ req.id \in Ids(res.d.candidates)
    /\ \E h \in {"fail", "slim"} : res.io = UpFault("candidates", h)

\* C24: an update survives a remote write failure: after such a request,
\* the local write having succeeded, the next loadData() returns the
\* candidate with the new status.
C24_UpdateSurvivesRemoteFailure ==
    StatusSetRemoteWriteFailed => StatusIn(NextLoad, req.id) = req.status

\* ------------------------------------------- one record per key on resubmit

\* C25: after any sequence of review submissions, each complete before the
\* next loads, through either backend, the stored reviews hold at most one
\* per (candidateId, round, interviewer).
C25_OneReviewPerInterviewer ==
    \A d \in PersistedDocs : \A i, j \in DOMAIN d.interviews :
        ( /\ d.interviews[i].candidateId = d.interviews[j].candidateId
          /\ d.interviews[i].round = d.interviews[j].round
          /\ OrDefault(Field(d.interviews[i], "interviewer"), "")
                = OrDefault(Field(d.interviews[j], "interviewer"), "") )
        => i = j

\* The schedule of (candidate id, round) in dataset d, as a set of
\* (id, createdAt) pairs.
SchedulesOf(d, id, round) ==
    { << d.interviewSchedules[i].id, d.interviewSchedules[i].createdAt >> :
        i \in { k \in DOMAIN d.interviewSchedules :
                  /\ d.interviewSchedules[k].candidateId = id
                  /\ d.interviewSchedules[k].round = round } }

\* C26: after any sequence of schedule submissions, each complete before
\* the next begins, the stored schedules hold at most one per (candidateId,
\* round); a resubmission for a pair that has one replaces it and keeps its
\* id and its createdAt.
C26_OneSchedulePerRound ==
    /\ [](\A d \in PersistedDocs : \A id \in {"c_0", "c_1"}, r \in INTERVIEW_ROUNDS :
            Cardinality(SchedulesOf(d, id, r)) <= 1)
    /\ [][ \A r \in INTERVIEW_ROUNDS :
             ( /\ req'.op = "schedule" /\ res'.code = 200
               /\ NumberRound(req'.round) = r
               /\ SchedulesOf(NextLoad, req'.id, r) # {} )
             => SchedulesOf(NextLoad', req'.id, r) = SchedulesOf(NextLoad, req'.id, r) ]_vars

\* A schedule made at one time was replaced at a later time by a
\* resubmission carrying another scheduled time.
C26_Witness ==
    /\ req.op = "schedule" /\ res.code = 200
    /\ \E i \in DOMAIN NextLoad.interviewSchedules :
          /\ NextLoad.interviewSchedules[i].candidateId = req.id
          /\ NextLoad.interviewSchedules[i].round = NumberRound(req.round)
          /\ NextLoad.interviewSchedules[i].createdAt < clock
          /\ NextLoad.interviewSchedules[i].scheduledAt = Trim(req.scheduledAt)
          /\ NextLoad.interviewSchedules[i].scheduledAt # "2026-01-01"

\* ------------------------------------------------ status changes are logged

\* Request rq's step from dataset d to dataset e logged the change of
\* candidate id's status: e has an event d had not, for that candidate,
\* whose message records the old and the new status.
StatusChangeLogged(d, e, id) ==
    \E i \in DOMAIN e.events :
        /\ e.events[i].id \notin Ids(d.events)
        /\ e.events[i].candidateId = id
        /\ e.events[i].message
              = StatusMsg(OrDefault(StatusIn(d, id), "pending_screen"), StatusIn(e, id))

\* C27: whenever a request (status-set, schedule, review or offer) changes a
\* stored candidate's status, the same request appends an event for that
\* candidate whose message records the old and the new status.
C27_StatusChangeAlwaysLogged ==
    [][ \A id \in Ids(NextLoad.candidates) :
          ( /\ req'.op \in {"status", "schedule", "review", "offer"}
            /\ id \in Ids(NextLoad'.candidates)
            /\ StatusIn(NextLoad', id) # StatusIn(NextLoad, id) )
          => StatusChangeLogged(NextLoad, NextLoad', id) ]_vars

\* The part of C27 that holds: the status-set, schedule and review handlers
\* log every change they make.
C27_ChangeLoggedExceptByOffer ==
    [][ \A id \in Ids(NextLoad.candidates) :
          ( /\ req'.op \in {"status", "schedule", "review"}
            /\ id \in Ids(NextLoad'.candidates)
            /\ StatusIn(NextLoad', id) # StatusIn(NextLoad, id) )
          => StatusChangeLogged(NextLoad, NextLoad', id) ]_vars

\* ------------------------------------------------- scheduling and the stage

\* One schedule request against a candidate in any stored stage: every
\* round, with and without a time, with and without a status to sync.
NextSchedule ==
    \E id \in RequestIds, r \in {"1", "2", "3", "4", "5", "6"},
       t \in {"", " ", "2026-02-02 10:00"}, s \in {"", "no_sync", "pass_r1"} :
        Schedule(id, r, t, "li", s, "off", AllOk)

SpecSchedule == InitPipeline /\ [][NextSchedule]_vars

\* Round n's predecessor stages: before the first round the two screening
\* stages, later the previous round passed or still waiting.
PredecessorStages(n) ==
    IF n = 1 THEN {"pending_screen", "resume_screen"}
    ELSE {PassStage(n - 1), WaitStage(n - 1)}

\* C28: a schedule request without an explicit sync status changes the
\* candidate's status only when a scheduled time is given and the current
\* status (待筛选 for a candidate without one) is a predecessor stage of the
\* round, and then to 待N面; otherwise the status stays as it was; the
\* status never moves backwards.
C28_ScheduleOnlyMovesForward ==
    [][ ( /\ req'.op = "schedule"
          /\ req'.syncStatus \in {"", "no_sync"}
          /\ req'.id \in Ids(NextLoad.candidates) )
        => LET old == OrDefault(StatusIn(NextLoad, req'.id), "pending_screen")
               new == StatusIn(NextLoad', req'.id)
               n == NumberRound(req'.round)
           IN  /\ IF /\ res'.code = 200
                     /\ Trim(req'.scheduledAt) # ""
                     /\ old \in PredecessorStages(n)
                  THEN new = WaitStage(n)
                  ELSE new = StatusIn(NextLoad, req'.id)
               /\ new # StatusIn(NextLoad, req'.id) => StageIndex(new) > StageIndex(old)
      ]_vars

\* A second-round schedule with a time moved a candidate from 一面通过 to
\* 待二面.
C28_Witness ==
    /\ req.op = "schedule" /\ req.syncStatus = "" /\ req.round = "2"
    /\ res.code = 200
    /\ StatusIn(NextLoad, req.id) = "wait_r2"
    /\ \E i \in DOMAIN NextLoad.events :
          /\ NextLoad.events[i].type = "auto_flow"
          /\ NextLoad.events[i].message = StatusMsg("pass_r1", "wait_r2")

\* ------------------------------------------------------ offers and the stage

MaxOfferOps == 2

\* Offer submissions one after the other against candidate c_0 stored in an
\* early stage, the offer stages, hired or rejected (c_0 has an offer, c_1
\* has none yet).
InitOffer ==
    /\ \E s \in {"wait_r1", "wait_offer", "offer_sent", "hired", "rejected"} :
          \/ cfg = LocalOnly /\ file = FileOf(SeedDoc(s)) /\ remote = EmptyRemote
          \/ /\ cfg = [sb |-> TRUE, serverless |-> TRUE]
             /\ file = NoFile /\ remote = SeedRemote(s)
    /\ clock = SeedTime
    /\ limit = SeedTime + MaxOfferOps
    /\ req = NoRequest
    /\ res = Res(0, "")
    /\ session = DevSession
    /\ feishu = FeishuOff
    /\ outbox = <<>>
    /\ pend = NoPending

NextOffer ==
    \E id \in {"c_0", "c_1", "c_none"}, s \in OfferInputs : Offer(id, s, AllOk)

SpecOffer == InitOffer /\ [][NextOffer]_vars

\* The offers dataset d holds for candidate id, by position.
OffersOf(d, id) == { i \in DOMAIN d.offers : d.offers[i].candidateId = id }

\* C29: after any sequence of offer submissions, each complete before the
\* next begins, the stored offers hold at most one per candidate; a
\* submission with offer status 已接受 sets the candidate's status to
\* Offer发放 unless it is 入职 already, and a submission with any other
\* offer status leaves the candidate's status as it was.
C29_OneOfferAndAcceptedMovesStage ==
    /\ [](\A d \in PersistedDocs : \A id \in {"c_0", "c_1"} :
            Cardinality(OffersOf(d, id)) <= 1)
    /\ [][ (req'.op = "offer" /\ req'.id \in Ids(NextLoad.candidates))
           => StatusIn(NextLoad', req'.id)
                 = IF /\ req'.offerStatus = "offer_accepted"
                      /\ StatusIn(NextLoad, req'.id) # "hired"
                   THEN "offer_sent"
                   ELSE StatusIn(NextLoad, req'.id) ]_vars

\* An accepted offer was submitted for a hired candidate, who has exactly
\* one stored offer and is still hired.
C29_Witness ==
    /\ req.op = "offer" /\ req.offerStatus = "offer_accepted"
    /\ StatusIn(NextLoad, req.id) = "hired"
    /\ Cardinality(OffersOf(NextLoad, req.id)) = 1
    /\ clock = SeedTime + MaxOfferOps

====
